---- MODULE Spec2Model ----
(***************************************************************************)
(* Neighbor-query core of freud: AABB ball and k-nearest-neighbor          *)
(* iterators (AABBQuery.cc), materialization to a NeighborList             *)
(* (NeighborQuery.h) and the generic neighbor loops                        *)
(* (NeighborComputeFunctional.h).                                          *)
(*                                                                         *)
(* Lengths are integers.  Points lie on the x axis of an orthorhombic box, *)
(* so a squared distance between a point and an unshifted or x-shifted     *)
(* query point is a perfect square and sqrt is exact on every hit.         *)
(***************************************************************************)
EXTENDS Integers, Sequences, FiniteSets, Bags, TLC

\* ------------------------------------------------------------------ bounds
MaxPoints == 3
MaxR == 3
BoxL == 6

\* ------------------------------------------------------------- small helpers
Min2(a, b) == IF a < b THEN a ELSE b
Max2(a, b) == IF a > b THEN a ELSE b

VecAdd(u, v) == <<u[1] + v[1], u[2] + v[2], u[3] + v[3]>>
VecSub(u, v) == <<u[1] - v[1], u[2] - v[2], u[3] - v[3]>>
VecScale(c, v) == <<c * v[1], c * v[2], c * v[3]>>
dot(u, v) == u[1] * v[1] + u[2] * v[2] + u[3] * v[3]

\* sqrt on the integers: the floor of the real square root (exact on squares)
sqrt(n) == CHOOSE s \in 0..n : s * s <= n /\ (s + 1) * (s + 1) > n

RECURSIVE Pow3(_)
Pow3(d) == IF d = 0 THEN 1 ELSE 3 * Pow3(d - 1)

RECURSIVE SeqToBag(_)
SeqToBag(s) == IF s = <<>> THEN EmptyBag ELSE SetToBag({Head(s)}) (+) SeqToBag(Tail(s))

\* ------------------------------------------------------------------ Box
\* An orthorhombic box: edge lengths, periodicity flags, 2D flag.  A 2D box
\* has c = (0,0,1) and is not periodic along z.
Boxes ==
    { b \in [L : {<<BoxL, BoxL, BoxL>>, <<BoxL, BoxL, 1>>},
             periodic : {<<x, y, z>> : x \in BOOLEAN, y \in BOOLEAN, z \in BOOLEAN},
             is2D : BOOLEAN] :
        /\ b.is2D <=> (b.L[3] = 1)
        /\ b.is2D => ~b.periodic[3] }

getNearestPlaneDistance(box) == box.L

getLatticeVector(box, i) ==
    IF i = 0 THEN <<box.L[1], 0, 0>>
    ELSE IF i = 1 THEN <<0, box.L[2], 0>>
    ELSE <<0, 0, box.L[3]>>

\* Coordinates a point may take (on the x axis of the box).
Coords == {0, 1, BoxL \div 2, BoxL - 1}

\* A point of the point array as a 3-vector.
Vec(x) == <<x, 0, 0>>

PointArrays == UNION { [1..n -> Coords] : n \in 0..MaxPoints }

\* ------------------------------------------------------------------ AABB tree
\* Nodes in pre-order; node i of the source is tree[i + 1].  skip is the
\* number of nodes of the subtree below the node, so that i + skip + 1 is
\* the first node after the subtree.
LeafBucketSize == 2

RECURSIVE InsertTag(_, _, _)
InsertTag(t, sorted, pts) ==
    IF sorted = <<>> THEN <<t>>
    ELSE IF pts[t + 1] < pts[Head(sorted) + 1] THEN <<t>> \o sorted
    ELSE <<Head(sorted)>> \o InsertTag(t, Tail(sorted), pts)

RECURSIVE SortTags(_, _)
SortTags(n, pts) == IF n = 0 THEN <<>> ELSE InsertTag(n - 1, SortTags(n - 1, pts), pts)

RECURSIVE BuildNodes(_, _)
BuildNodes(tags, pts) ==
    LET lo == pts[tags[1] + 1]
        hi == pts[tags[Len(tags)] + 1]
    IN  IF Len(tags) <= LeafBucketSize
        THEN << [lower |-> lo, upper |-> hi, skip |-> 0, leaf |-> TRUE, tags |-> tags] >>
        ELSE LET h == (Len(tags) + 1) \div 2
                 left == BuildNodes(SubSeq(tags, 1, h), pts)
                 right == BuildNodes(SubSeq(tags, h + 1, Len(tags)), pts)
             IN  << [lower |-> lo, upper |-> hi, skip |-> Len(left) + Len(right),
                     leaf |-> FALSE, tags |-> <<>>] >> \o left \o right

buildTree(pts) == IF Len(pts) = 0 THEN <<>> ELSE BuildNodes(SortTags(Len(pts), pts), pts)

\* overlap(AABB, AABBSphere): the squared distance from the sphere's centre
\* to the closed box is at most r^2.  Node boxes are intervals on the x axis.
overlap(node, centre, r) ==
    LET dx == Max2(Max2(node.lower - centre[1], centre[1] - node.upper), 0)
    IN  dx * dx + centre[2] * centre[2] + centre[3] * centre[3] <= r * r

\* ------------------------------------------------------------------ images
ImageLoopOrder ==
    [n \in 1..27 |-> <<((n - 1) \div 9) - 1, (((n - 1) \div 3) % 3) - 1, ((n - 1) % 3) - 1>>]

BoxTooSmall_strictlyBelow(box, rmax) ==
    LET npd == getNearestPlaneDistance(box)
    IN  \/ (box.periodic[1] /\ npd[1] < rmax * 2)
        \/ (box.periodic[2] /\ npd[2] < rmax * 2)
        \/ (~box.is2D /\ box.periodic[3] /\ npd[3] < rmax * 2)

BoxTooSmall(box, rmax) ==
    LET npd == getNearestPlaneDistance(box)
    IN  \/ (box.periodic[1] /\ npd[1] <= rmax * 2)
        \/ (box.periodic[2] /\ npd[2] <= rmax * 2)
        \/ (~box.is2D /\ box.periodic[3] /\ npd[3] <= rmax * 2)

NumImages(box) ==
    Pow3((IF box.periodic[1] THEN 1 ELSE 0) + (IF box.periodic[2] THEN 1 ELSE 0)
         + (IF ~box.is2D /\ box.periodic[3] THEN 1 ELSE 0))

ImageCoefficients_zKeptIn2D(box) ==
    LET keep(c) == /\ c # <<0, 0, 0>>
                   /\ ~(c[1] # 0 /\ ~box.periodic[1])
                   /\ ~(c[2] # 0 /\ ~box.periodic[2])
                   /\ ~(c[3] # 0 /\ ~box.periodic[3])
        kept == SelectSeq(ImageLoopOrder, keep)
    IN  << <<0, 0, 0>> >> \o SubSeq(kept, 1, Min2(Len(kept), NumImages(box) - 1))

\* The (i, j, k) the three nested loops store, in the order they store them.
ImageCoefficients(box) ==
    LET keep(c) == /\ c # <<0, 0, 0>>
                   /\ ~(c[1] # 0 /\ ~box.periodic[1])
                   /\ ~(c[2] # 0 /\ ~box.periodic[2])
                   /\ ~(c[3] # 0 /\ (box.is2D \/ ~box.periodic[3]))
        kept == SelectSeq(ImageLoopOrder, keep)
    IN  << <<0, 0, 0>> >> \o SubSeq(kept, 1, Min2(Len(kept), NumImages(box) - 1))

ImageVector(box, c) ==
    LET latt_a == getLatticeVector(box, 0)
        latt_b == getLatticeVector(box, 1)
        latt_c == IF box.is2D THEN <<0, 0, 0>> ELSE getLatticeVector(box, 2)
    IN  VecAdd(VecAdd(VecScale(c[1], latt_a), VecScale(c[2], latt_b)), VecScale(c[3], latt_c))

\* updateImageVectors(rmax): throws, or sets m_n_images and m_image_list.
updateImageVectors(box, rmax) ==
    IF BoxTooSmall(box, rmax)
    THEN [err |-> "BoxTooSmall", n_images |-> 0, image_list |-> <<>>]
    ELSE LET cs == ImageCoefficients(box)
         IN  [err |-> "none", n_images |-> NumImages(box),
              image_list |-> [n \in 1..Len(cs) |-> ImageVector(box, cs[n])]]

\* ------------------------------------------------------------------ state
VARIABLES
    m_box,          \* AABBQuery: the simulation box
    m_ref_points,   \* AABBQuery: the reference points (x coordinates), tag i at [i + 1]
    m_aabb_tree,    \* AABBQuery: the tree built over the points
    ball,           \* the AABBQueryBallIterator a consumer holds
    knn,            \* the AABBQueryIterator a consumer holds
    ret,            \* what the last next() call returned
    out,            \* every value next() has returned to the consumer, in order
    err,            \* the exception that ended the consumer, or "none"
    qpoints,        \* the query points of a multi-point query, query i at [i + 1]
    qargs,          \* the arguments the caller queried with
    qit,            \* the NeighborQueryIterator a caller holds
    nlist,          \* the NeighborList toNeighborList() returned
    fcalls,         \* the bonds the per-pair compute function was invoked on, in order
    yields,         \* live path: what the per-query iterator of query i returned, at [i + 1]
    gcalls,         \* the per-query compute function's invocations, in order
    driver,         \* the driver that has run, or "none"
    backend,        \* the class of the NeighborQuery handle: "AABBQuery" or "RawPoints"
    queries,        \* the calls of query and queryBall made on the handle, in order
    nlcopy,         \* the NeighborList a caller made as a copy of its list
    op,             \* the last operation on the bond list, with its arguments
    lret            \* what the last filter or filter_r returned

itervars == <<ball, knn, ret, out>>
matvars == <<qpoints, qargs, qit, nlist, fcalls, yields, gcalls, driver>>
listvars == <<op, lret>>
vars == <<m_box, m_ref_points, m_aabb_tree, ball, knn, ret, out, err,
          qpoints, qargs, qit, nlist, fcalls, yields, gcalls, driver, op, lret,
          backend, queries, nlcopy>>

\* SpatialData::ITERATOR_TERMINATOR: the index is -1 converted to unsigned,
\* a value no point index equals; it is kept as -1 here.
ITERATOR_TERMINATOR == [ref_id |-> -1, distance |-> 0]

NeighborPoint(j, d) == [ref_id |-> j, distance |-> d]

NoBallIterator ==
    [live |-> FALSE, point |-> 0, r |-> 0, cur_image |-> 0, cur_node_idx |-> 0, cur_p |-> 0,
     finished |-> FALSE, n_images |-> 0, image_list |-> <<>>]

NoKnnIterator ==
    [live |-> FALSE, point |-> 0, k |-> 0, r |-> 0, scale |-> 0, finished |-> FALSE,
     current_neighbors |-> <<>>]

\* AABBQuery::AABBQuery: the object after construction.
AABBQuery(box, pts) ==
    /\ m_box = box
    /\ m_ref_points = pts
    /\ m_aabb_tree = buildTree(pts)
    /\ backend = "AABBQuery"

\* ------------------------------------------------------------------ ball iterator
\* AABBQueryBallIterator's constructor: cursors at zero, images for m_r.
AABBQueryBallIterator(box, point, r) ==
    LET im == updateImageVectors(box, r)
    IN  [live |-> im.err = "none", point |-> point, r |-> r, cur_image |-> 0,
         cur_node_idx |-> 0, cur_p |-> 0, finished |-> FALSE,
         n_images |-> im.n_images, image_list |-> im.image_list]

\* One pass of the innermost loop of AABBQueryBallIterator::next() that
\* applies to the cursors: the iterator after it, and the value returned when
\* the pass ends in a return statement.
BallLoopPass_inclusiveCutoff(it, tree, pts) ==
    LET r_cutsq == it.r * it.r
        pos_i == Vec(it.point)
    IN  IF it.cur_image < it.n_images
        THEN LET pos_i_image == VecAdd(pos_i, it.image_list[it.cur_image + 1])
             IN  IF it.cur_node_idx < Len(tree)
                 THEN LET node == tree[it.cur_node_idx + 1]
                      IN  IF overlap(node, pos_i_image, it.r)
                          THEN IF node.leaf /\ it.cur_p < Len(node.tags)
                               THEN LET j == node.tags[it.cur_p + 1]
                                        pos_j == Vec(pts[j + 1])
                                        drij == VecSub(pos_j, pos_i_image)
                                        dr_sq == dot(drij, drij)
                                    IN  IF dr_sq <= r_cutsq
                                        THEN [returns |-> TRUE, it |-> [it EXCEPT !.cur_p = @ + 1],
                                              ret |-> NeighborPoint(j, sqrt(dr_sq))]
                                        ELSE [returns |-> FALSE, it |-> [it EXCEPT !.cur_p = @ + 1],
                                              ret |-> ITERATOR_TERMINATOR]
                               ELSE [returns |-> FALSE, ret |-> ITERATOR_TERMINATOR,
                                     it |-> [it EXCEPT !.cur_node_idx = @ + 1, !.cur_p = 0]]
                          ELSE [returns |-> FALSE, ret |-> ITERATOR_TERMINATOR,
                                it |-> [it EXCEPT !.cur_node_idx = @ + node.skip + 1, !.cur_p = 0]]
                 ELSE [returns |-> FALSE, ret |-> ITERATOR_TERMINATOR,
                       it |-> [it EXCEPT !.cur_image = @ + 1, !.cur_node_idx = 0]]
        ELSE [returns |-> TRUE, it |-> [it EXCEPT !.finished = TRUE], ret |-> ITERATOR_TERMINATOR]

BallLoopPass_finishedNotSet(it, tree, pts) ==
    LET r_cutsq == it.r * it.r
        pos_i == Vec(it.point)
    IN  IF it.cur_image < it.n_images
        THEN LET pos_i_image == VecAdd(pos_i, it.image_list[it.cur_image + 1])
             IN  IF it.cur_node_idx < Len(tree)
                 THEN LET node == tree[it.cur_node_idx + 1]
                      IN  IF overlap(node, pos_i_image, it.r)
                          THEN IF node.leaf /\ it.cur_p < Len(node.tags)
                               THEN LET j == node.tags[it.cur_p + 1]
                                        pos_j == Vec(pts[j + 1])
                                        drij == VecSub(pos_j, pos_i_image)
                                        dr_sq == dot(drij, drij)
                                    IN  IF dr_sq < r_cutsq
                                        THEN [returns |-> TRUE, it |-> [it EXCEPT !.cur_p = @ + 1],
                                              ret |-> NeighborPoint(j, sqrt(dr_sq))]
                                        ELSE [returns |-> FALSE, it |-> [it EXCEPT !.cur_p = @ + 1],
                                              ret |-> ITERATOR_TERMINATOR]
                               ELSE [returns |-> FALSE, ret |-> ITERATOR_TERMINATOR,
                                     it |-> [it EXCEPT !.cur_node_idx = @ + 1, !.cur_p = 0]]
                          ELSE [returns |-> FALSE, ret |-> ITERATOR_TERMINATOR,
                                it |-> [it EXCEPT !.cur_node_idx = @ + node.skip + 1, !.cur_p = 0]]
                 ELSE [returns |-> FALSE, ret |-> ITERATOR_TERMINATOR,
                       it |-> [it EXCEPT !.cur_image = @ + 1, !.cur_node_idx = 0]]
        ELSE [returns |-> TRUE, it |-> it, ret |-> ITERATOR_TERMINATOR]

BallLoopPass_skipPastSibling(it, tree, pts) ==
    LET r_cutsq == it.r * it.r
        pos_i == Vec(it.point)
    IN  IF it.cur_image < it.n_images
        THEN LET pos_i_image == VecAdd(pos_i, it.image_list[it.cur_image + 1])
             IN  IF it.cur_node_idx < Len(tree)
                 THEN LET node == tree[it.cur_node_idx + 1]
                      IN  IF overlap(node, pos_i_image, it.r)
                          THEN IF node.leaf /\ it.cur_p < Len(node.tags)
                               THEN LET j == node.tags[it.cur_p + 1]
                                        pos_j == Vec(pts[j + 1])
                                        drij == VecSub(pos_j, pos_i_image)
                                        dr_sq == dot(drij, drij)
                                    IN  IF dr_sq < r_cutsq
                                        THEN [returns |-> TRUE, it |-> [it EXCEPT !.cur_p = @ + 1],
                                              ret |-> NeighborPoint(j, sqrt(dr_sq))]
                                        ELSE [returns |-> FALSE, it |-> [it EXCEPT !.cur_p = @ + 1],
                                              ret |-> ITERATOR_TERMINATOR]
                               ELSE [returns |-> FALSE, ret |-> ITERATOR_TERMINATOR,
                                     it |-> [it EXCEPT !.cur_node_idx = @ + 1, !.cur_p = 0]]
                          ELSE [returns |-> FALSE, ret |-> ITERATOR_TERMINATOR,
                                it |-> [it EXCEPT !.cur_node_idx = @ + node.skip + 2, !.cur_p = 0]]
                 ELSE [returns |-> FALSE, ret |-> ITERATOR_TERMINATOR,
                       it |-> [it EXCEPT !.cur_image = @ + 1, !.cur_node_idx = 0]]
        ELSE [returns |-> TRUE, it |-> [it EXCEPT !.finished = TRUE], ret |-> ITERATOR_TERMINATOR]

BallLoopPass(it, tree, pts) ==
    LET r_cutsq == it.r * it.r
        pos_i == Vec(it.point)
    IN  IF it.cur_image < it.n_images
        THEN LET pos_i_image == VecAdd(pos_i, it.image_list[it.cur_image + 1])
             IN  IF it.cur_node_idx < Len(tree)
                 THEN LET node == tree[it.cur_node_idx + 1]
                      IN  IF overlap(node, pos_i_image, it.r)
                          THEN IF node.leaf /\ it.cur_p < Len(node.tags)
                               THEN LET j == node.tags[it.cur_p + 1]
                                        pos_j == Vec(pts[j + 1])
                                        drij == VecSub(pos_j, pos_i_image)
                                        dr_sq == dot(drij, drij)
                                    IN  IF dr_sq < r_cutsq
                                        THEN [returns |-> TRUE, it |-> [it EXCEPT !.cur_p = @ + 1],
                                              ret |-> NeighborPoint(j, sqrt(dr_sq))]
                                        ELSE [returns |-> FALSE, it |-> [it EXCEPT !.cur_p = @ + 1],
                                              ret |-> ITERATOR_TERMINATOR]
                               ELSE [returns |-> FALSE, ret |-> ITERATOR_TERMINATOR,
                                     it |-> [it EXCEPT !.cur_node_idx = @ + 1, !.cur_p = 0]]
                          ELSE [returns |-> FALSE, ret |-> ITERATOR_TERMINATOR,
                                it |-> [it EXCEPT !.cur_node_idx = @ + node.skip + 1, !.cur_p = 0]]
                 ELSE [returns |-> FALSE, ret |-> ITERATOR_TERMINATOR,
                       it |-> [it EXCEPT !.cur_image = @ + 1, !.cur_node_idx = 0]]
        ELSE [returns |-> TRUE, it |-> [it EXCEPT !.finished = TRUE], ret |-> ITERATOR_TERMINATOR]

\* AABBQueryBallIterator::next(): the iterator after the call and the value
\* returned.
RECURSIVE AABBQueryBallIterator_next(_, _, _)
AABBQueryBallIterator_next(it, tree, pts) ==
    LET pass == BallLoopPass(it, tree, pts)
    IN  IF pass.returns THEN [it |-> pass.it, ret |-> pass.ret]
        ELSE AABBQueryBallIterator_next(pass.it, tree, pts)

\* How many terminators the consumer has been handed.
Terminators(s) == Cardinality({n \in 1..Len(s) : s[n] = ITERATOR_TERMINATOR})
MaxTerminators == 2

\* AABBQuery::queryBall(point, r): a consumer obtains a ball iterator.
QueryBall ==
    /\ ~ball.live /\ ~knn.live /\ err = "none"
    /\ \E point \in Coords, r \in 0..MaxR :
          LET it == AABBQueryBallIterator(m_box, point, r)
          IN  /\ ball' = it
              /\ err' = IF it.live THEN "none" ELSE "BoxTooSmall"
    /\ UNCHANGED <<nlcopy, backend, m_box, m_ref_points, m_aabb_tree, knn, ret, out>>
    /\ UNCHANGED queries
    /\ UNCHANGED matvars
    /\ UNCHANGED listvars

\* The consumer calls next() on its ball iterator (also after the end).
BallNext ==
    /\ ball.live /\ err = "none"
    /\ Terminators(out) < MaxTerminators
    /\ LET res == AABBQueryBallIterator_next(ball, m_aabb_tree, m_ref_points)
       IN  /\ ball' = res.it
           /\ ret' = res.ret
           /\ out' = Append(out, res.ret)
    /\ UNCHANGED <<nlcopy, backend, m_box, m_ref_points, m_aabb_tree, knn, err>>
    /\ UNCHANGED queries
    /\ UNCHANGED matvars
    /\ UNCHANGED listvars

\* ------------------------------------------------------------------ k-NN iterator
MaxK == 3
Scales == {2, 3}

\* A radius beyond every distance in the box, which scaling leaves as it is:
\* what m_r *= m_scale reaches once the float overflows to +infinity.
RInf == 8 * BoxL

ScaleRadius(r, scale) == Min2(r * scale, RInf)

\* NeighborPoint::operator<: by distance, then by point index.
NeighborPointLess(a, b) ==
    \/ a.distance < b.distance
    \/ (a.distance = b.distance /\ a.ref_id < b.ref_id)

\* std::sort(rbegin, rend): the vector in descending order, smallest last.
RECURSIVE InsertDescending(_, _)
InsertDescending(x, sorted) ==
    IF sorted = <<>> THEN <<x>>
    ELSE IF NeighborPointLess(Head(sorted), x) THEN <<x>> \o sorted
    ELSE <<Head(sorted)>> \o InsertDescending(x, Tail(sorted))

RECURSIVE SortDescending(_)
SortDescending(v) ==
    IF v = <<>> THEN <<>> ELSE InsertDescending(Head(v), SortDescending(Tail(v)))

pop_back(v) == SubSeq(v, 1, Len(v) - 1)
back(v) == v[Len(v)]

\* while (!ball_it->end()) emplace_back(ball_it->next()): every value the
\* ball iterator returns until end() is true.
RECURSIVE DrainBall(_, _, _)
DrainBall(it, tree, pts) ==
    IF it.finished THEN <<>>
    ELSE LET res == AABBQueryBallIterator_next(it, tree, pts)
         IN  <<res.ret>> \o DrainBall(res.it, tree, pts)

\* The values a call of next() may return when control reaches the end of
\* the function without a return statement.
UndefinedReturns == {ITERATOR_TERMINATOR, NeighborPoint(0, RInf)}

\* AABBQueryIterator's constructor.
AABBQueryIterator(point, k, r, scale) ==
    [live |-> TRUE, point |-> point, k |-> k, r |-> r, scale |-> scale, finished |-> FALSE,
     current_neighbors |-> <<>>]

\* The while (true) loop of AABBQueryIterator::next(): the iterator when the
\* loop is left, by a break or by the exception of a ball query.
RECURSIVE KnnBuild(_, _, _, _)
KnnBuild(it, box, tree, pts) ==
    LET npd == getNearestPlaneDistance(box)
        min_plane_distance == Min2(Min2(npd[1], npd[2]), npd[3])
        ball_it == AABBQueryBallIterator(box, it.point, it.r)
    IN  IF ~ball_it.live
        THEN [it |-> [it EXCEPT !.current_neighbors = <<>>], err |-> "BoxTooSmall"]
        ELSE LET found == pop_back(DrainBall(ball_it, tree, pts))
             IN  IF Len(found) >= it.k
                 THEN [it |-> [it EXCEPT !.current_neighbors = found], err |-> "none"]
                 ELSE LET r2 == ScaleRadius(it.r, it.scale)
                      IN  IF 2 * r2 > min_plane_distance
                          THEN [it |-> [it EXCEPT !.current_neighbors = found, !.r = r2],
                                err |-> "none"]
                          ELSE KnnBuild([it EXCEPT !.r = r2], box, tree, pts)

\* The part of AABBQueryIterator::next() that returns the points found.
KnnReturn(it) ==
    IF Len(it.current_neighbors) > 0
    THEN LET sorted == SortDescending(it.current_neighbors)
             rest == pop_back(sorted)
         IN  { [it |-> [it EXCEPT !.current_neighbors = rest,
                                  !.finished = (Len(rest) = 0)],
                ret |-> back(sorted), err |-> "none", defined |-> TRUE] }
    ELSE { [it |-> it, ret |-> u, err |-> "none", defined |-> FALSE] : u \in UndefinedReturns }

\* AABBQueryIterator::next(): every outcome of one call.
AABBQueryIterator_next(it, box, tree, pts) ==
    IF it.finished
    THEN { [it |-> it, ret |-> ITERATOR_TERMINATOR, err |-> "none", defined |-> TRUE] }
    ELSE IF Len(it.current_neighbors) = 0
    THEN LET built == KnnBuild(it, box, tree, pts)
         IN  IF built.err # "none"
             THEN { [it |-> built.it, ret |-> ITERATOR_TERMINATOR, err |-> built.err,
                     defined |-> FALSE] }
             ELSE KnnReturn(built.it)
    ELSE KnnReturn(it)

\* The history keeps the first MaxOut values a consumer was handed.
MaxOut == 12
Record(s, v) == IF Len(s) < MaxOut THEN Append(s, v) ELSE s

\* AABBQuery::query(point, k, r, scale): a consumer obtains a k-NN iterator.
QueryKnn ==
    /\ ~ball.live /\ ~knn.live /\ err = "none"
    /\ \E point \in Coords, k \in 1..MaxK, r \in 1..MaxR, scale \in Scales :
          knn' = AABBQueryIterator(point, k, r, scale)
    /\ UNCHANGED <<nlcopy, backend, m_box, m_ref_points, m_aabb_tree, ball, ret, out, err>>
    /\ UNCHANGED queries
    /\ UNCHANGED matvars
    /\ UNCHANGED listvars

\* The consumer calls next() on its k-NN iterator (also after the end).
KnnNext ==
    /\ knn.live /\ err = "none"
    /\ Terminators(out) < MaxTerminators \/ ~knn.finished
    /\ \E o \in AABBQueryIterator_next(knn, m_box, m_aabb_tree, m_ref_points) :
          /\ knn' = o.it
          /\ err' = o.err
          /\ ret' = o.ret
          /\ out' = IF o.err = "none" THEN Record(out, o.ret) ELSE out
    /\ UNCHANGED <<nlcopy, backend, m_box, m_ref_points, m_aabb_tree, ball>>
    /\ UNCHANGED queries
    /\ UNCHANGED matvars
    /\ UNCHANGED listvars

\* ------------------------------------------------------------------ unsigned int
\* An unsigned int, as its upper and lower 16 bits.
Limb == 65536
UInt32(n) == [hi |-> (n \div Limb) % Limb, lo |-> n % Limb]

\* a - b in unsigned int arithmetic.
UInt32Sub(a, b) ==
    LET borrow == IF a.lo < b.lo THEN 1 ELSE 0
    IN  [hi |-> (a.hi - b.hi - borrow) % Limb, lo |-> (a.lo - b.lo) % Limb]

\* No operation on a bond list yet.
NoOp ==
    [name |-> "none", num_bonds |-> 0, query_point_index |-> <<>>, num_query_points |-> 0,
     point_index |-> <<>>, num_points |-> 0, distances |-> <<>>, weights |-> <<>>,
     filt |-> <<>>, r_max |-> 0, r_min |-> 0, reset |-> FALSE]

\* ------------------------------------------------------------------ multi-point queries
\* std::vector: the elements 1..Len(f) of f as a sequence.
vector(f) == SubSeq(f, 1, Len(f))

\* NeighborBond(id, ref_id, d, weight): a bond of query point id.
NeighborBond(id, ref_id, d, w) == [id |-> id, ref_id |-> ref_id, distance |-> d, weight |-> w]
DefaultWeight == 1

\* QueryArgs: what a caller asks for.
QueryArgs(mode, num_neigh, r_max, scale, exclude_ii) ==
    [mode |-> mode, num_neigh |-> num_neigh, r_max |-> r_max, scale |-> scale,
     exclude_ii |-> exclude_ii]

NoQueryArgs == QueryArgs("none", 0, 0, 0, FALSE)

\* A call of query (arg is num_neighbors) or queryBall (arg is r_max) on the
\* handle, over n query points.
QueryCall(fn, n, arg, exclude_ii) ==
    [fn |-> fn, n_query_points |-> n, arg |-> arg, exclude_ii |-> exclude_ii]

NoQueryIterator ==
    [live |-> FALSE, mode |-> "none", n_query_points |-> 0, exclude_ii |-> FALSE,
     k |-> 0, r |-> 0, scale |-> 0]

\* The iterator of a ball query over n query points.
NeighborQueryBallIterator(n, exclude_ii, r) ==
    [live |-> TRUE, mode |-> "ball", n_query_points |-> n, exclude_ii |-> exclude_ii,
     k |-> 0, r |-> r, scale |-> 0]

\* NeighborQueryQueryIterator's constructor: the iterator of a k-NN query
\* over n query points.
NeighborQueryQueryIterator(n, exclude_ii, k, r, scale) ==
    [live |-> TRUE, mode |-> "nearest", n_query_points |-> n, exclude_ii |-> exclude_ii,
     k |-> k, r |-> r, scale |-> scale]

\* while (!it->end()) np = it->next() on a k-NN iterator: the values
\* returned, and how the loop ended ("Hang": it never does).
RECURSIVE DrainKnn(_, _, _, _)
DrainKnn(it, box, tree, pts) ==
    IF it.finished THEN { [vals |-> <<>>, err |-> "none"] }
    ELSE UNION { IF o.err # "none" THEN { [vals |-> <<>>, err |-> o.err] }
                 ELSE IF o.it = it THEN { [vals |-> <<o.ret>>, err |-> "Hang"] }
                 ELSE { [vals |-> <<o.ret>> \o d.vals, err |-> d.err] :
                           d \in DrainKnn(o.it, box, tree, pts) } :
                 o \in AABBQueryIterator_next(it, box, tree, pts) }

\* it = this->query(i) followed by the loop that calls next() until end().
PointYields(q, i) ==
    IF q.mode = "ball"
    THEN LET it == AABBQueryBallIterator(m_box, qpoints[i + 1], q.r)
         IN  IF it.live
             THEN { [vals |-> DrainBall(it, m_aabb_tree, m_ref_points), err |-> "none"] }
             ELSE { [vals |-> <<>>, err |-> "BoxTooSmall"] }
    ELSE DrainKnn(AABBQueryIterator(qpoints[i + 1], q.k, q.r, q.scale),
                  m_box, m_aabb_tree, m_ref_points)

\* The bonds the loop of toNeighborList() puts in local_bonds for query i.
RECURSIVE KeepBonds(_, _, _)
KeepBonds(i, vals, exclude_ii) ==
    IF vals = <<>> THEN <<>>
    ELSE LET np == Head(vals)
             rest == KeepBonds(i, Tail(vals), exclude_ii)
         IN  IF ~exclude_ii \/ i # np.ref_id
             THEN <<NeighborBond(i, np.ref_id, np.distance, DefaultWeight)>> \o rest
             ELSE rest

\* local_bonds.pop_back(): on an empty vector the behaviour is undefined;
\* the run faults or goes on with the vector empty.
PopLocalBonds(local_bonds) ==
    IF Len(local_bonds) > 0
    THEN { [bonds |-> pop_back(local_bonds), err |-> "none"] }
    ELSE { [bonds |-> local_bonds, err |-> "Fault"], [bonds |-> local_bonds, err |-> "none"] }

\* One pass of the for loop of toNeighborList() for query i, run by the
\* thread whose vector is local_bonds.
QueryIntoLocalBonds(local_bonds, i, q) ==
    UNION { IF y.err # "none" THEN { [bonds |-> local_bonds, err |-> y.err] }
            ELSE PopLocalBonds(local_bonds \o KeepBonds(i, y.vals, q.exclude_ii)) :
            y \in PointYields(q, i) }

\* tbb::parallel_for over the query indices: every index is run once, by
\* some thread, in some order.
NumThreads == 2
Schedules(n) ==
    { s \in [1..n -> (0..(n - 1)) \X (1..NumThreads)] :
         \A a, b \in 1..n : s[a][1] = s[b][1] => a = b }

RECURSIVE RunSchedule(_, _, _)
RunSchedule(sched, bonds, q) ==
    IF sched = <<>> THEN { [bonds |-> bonds, err |-> "none"] }
    ELSE LET i == Head(sched)[1]
             t == Head(sched)[2]
         IN  UNION { IF o.err # "none" THEN { [bonds |-> bonds, err |-> o.err] }
                     ELSE RunSchedule(Tail(sched), [bonds EXCEPT ![t] = o.bonds], q) :
                     o \in QueryIntoLocalBonds(bonds[t], i, q) }

\* tbb::flatten2d: the threads' vectors one after the other.
RECURSIVE flatten2d(_, _)
flatten2d(bonds, t) ==
    IF t > Len(bonds) THEN <<>> ELSE bonds[t] \o flatten2d(bonds, t + 1)

\* compareNeighborBond: by query index, then distance, then point index.
compareNeighborBond(left, right) ==
    \/ left.id < right.id
    \/ left.id = right.id /\ left.distance < right.distance
    \/ left.id = right.id /\ left.distance = right.distance /\ left.ref_id < right.ref_id

RECURSIVE InsertBond(_, _)
InsertBond(x, sorted) ==
    IF sorted = <<>> THEN <<x>>
    ELSE IF compareNeighborBond(x, Head(sorted)) THEN <<x>> \o sorted
    ELSE <<Head(sorted)>> \o InsertBond(x, Tail(sorted))

RECURSIVE parallel_sort(_)
parallel_sort(v) ==
    IF v = <<>> THEN <<>> ELSE InsertBond(Head(v), parallel_sort(Tail(v)))

\* The float whose four bytes memset(weights, 1, ...) sets to 0x01, by its
\* bit pattern 0x01010101.
MemsetWeight == 16843009

NullList ==
    [null |-> TRUE, neighbors |-> <<>>, distances |-> <<>>, weights |-> <<>>,
     counts |-> <<>>, segments |-> <<>>, num_points |-> 0, num_query_points |-> 0]

\* NeighborList::NeighborList(): no bonds, no points.
NeighborList == [NullList EXCEPT !.null = FALSE]

getNumBonds(nl) == Len(nl.neighbors)

\* ManagedArray::prepare(shape, reset): an array of the new length; with
\* reset the content is zeroed, without it the old content is kept as far
\* as the new length goes and the new entries are zero.
prepare(array, length, reset, zero) ==
    vector([b \in 1..length |-> IF reset \/ b > Len(array) THEN zero ELSE array[b]])

\* The value of the reset parameter of resize() where a call leaves it out.
DefaultReset == TRUE

\* NeighborList::resize(num_bonds, reset)
resize(nl, num_bonds, reset) ==
    IF num_bonds # getNumBonds(nl)
    THEN [nl EXCEPT !.neighbors = prepare(nl.neighbors, num_bonds, reset, <<0, 0>>),
                    !.distances = prepare(nl.distances, num_bonds, reset, 0),
                    !.weights = prepare(nl.weights, num_bonds, reset, 0)]
    ELSE nl

\* NeighborList::setNumBonds(num_bonds, num_points, num_query_points)
setNumBonds(nl, num_bonds, num_points, num_query_points) ==
    [resize(nl, num_bonds, DefaultReset) EXCEPT !.num_points = num_points,
                                  !.num_query_points = num_query_points]

\* NeighborList::validate(num_points, num_query_points): the exception it
\* throws, or "none".
validate(nl, num_points, num_query_points) ==
    IF num_points # nl.num_points THEN "InconsistentSizes"
    ELSE IF num_query_points # nl.num_query_points THEN "InconsistentSizes"
    ELSE "none"

LinearBondsToList_unsorted(bonds, q) ==
    LET linear_bonds == flatten2d(bonds, 1)
        num_bonds == Len(linear_bonds)
        nl == setNumBonds(resize(NeighborList, num_bonds, DefaultReset), num_bonds,
                          q.n_query_points, Len(m_ref_points))
    IN  [nl EXCEPT
            !.neighbors = vector([b \in 1..num_bonds |->
                                     <<linear_bonds[b].id, linear_bonds[b].ref_id>>]),
            !.distances = vector([b \in 1..num_bonds |-> linear_bonds[b].distance]),
            !.weights = vector([b \in 1..num_bonds |-> MemsetWeight])]

\* The end of NeighborQueryIterator::toNeighborList(): the list made of the
\* threads' bonds.
LinearBondsToList(bonds, q) ==
    LET linear_bonds == parallel_sort(flatten2d(bonds, 1))
        num_bonds == Len(linear_bonds)
        nl == setNumBonds(resize(NeighborList, num_bonds, DefaultReset), num_bonds,
                          q.n_query_points, Len(m_ref_points))
    IN  [nl EXCEPT
            !.neighbors = vector([b \in 1..num_bonds |->
                                     <<linear_bonds[b].id, linear_bonds[b].ref_id>>]),
            !.distances = vector([b \in 1..num_bonds |-> linear_bonds[b].distance]),
            !.weights = vector([b \in 1..num_bonds |-> MemsetWeight])]

\* A caller queries the neighbors of all its query points within r.
QueryBallPoints ==
    /\ ~qit.live /\ err = "none"
    /\ \E r \in 0..MaxR, exclude_ii \in BOOLEAN :
          /\ qargs' = QueryArgs("ball", 0, r, 0, exclude_ii)
          /\ qit' = NeighborQueryBallIterator(Len(qpoints), exclude_ii, r)
          /\ queries' = Append(queries, QueryCall("queryBall", Len(qpoints), r, exclude_ii))
    /\ UNCHANGED <<nlcopy, backend, m_box, m_ref_points, m_aabb_tree, err>>
    /\ UNCHANGED <<qpoints, nlist, fcalls, yields, gcalls, driver>>
    /\ UNCHANGED itervars
    /\ UNCHANGED listvars

\* A caller queries the k nearest neighbors of all its query points.
QueryNearestPoints ==
    /\ ~qit.live /\ err = "none"
    /\ \E k \in 1..MaxK, r \in 1..MaxR, scale \in Scales, exclude_ii \in BOOLEAN :
          /\ qargs' = QueryArgs("nearest", k, r, scale, exclude_ii)
          /\ qit' = NeighborQueryQueryIterator(Len(qpoints), exclude_ii, k, r, scale)
          /\ queries' = Append(queries, QueryCall("query", Len(qpoints), k, exclude_ii))
    /\ UNCHANGED <<nlcopy, backend, m_box, m_ref_points, m_aabb_tree, err>>
    /\ UNCHANGED <<qpoints, nlist, fcalls, yields, gcalls, driver>>
    /\ UNCHANGED itervars
    /\ UNCHANGED listvars

\* toNeighborList() on the caller's iterator: NeighborQueryQueryIterator's
\* override raises m_k around the base function when self-pairs are excluded
\* and lowers it again only when the base function throws.
ToNeighborList ==
    /\ qit.live /\ nlist.null /\ err = "none" /\ driver = "none"
    /\ LET raised == IF qit.mode = "nearest" /\ qit.exclude_ii
                     THEN [qit EXCEPT !.k = @ + 1] ELSE qit
       IN  \E sched \in Schedules(qit.n_query_points) :
           \E o \in RunSchedule(sched, vector([t \in 1..NumThreads |-> <<>>]), raised) :
              /\ err' = o.err
              /\ nlist' = IF o.err = "none" THEN LinearBondsToList(o.bonds, raised) ELSE nlist
              /\ qit' = IF o.err = "BoxTooSmall" THEN qit ELSE raised
    /\ UNCHANGED <<nlcopy, backend, m_box, m_ref_points, m_aabb_tree>>
    /\ UNCHANGED queries
    /\ UNCHANGED <<qpoints, qargs, fcalls, yields, gcalls, driver>>
    /\ UNCHANGED itervars
    /\ UNCHANGED listvars

\* ------------------------------------------------------------------ bond list
\* One pass of the loop of the constructor from arrays, for bond i: the
\* list and last_index after it, or the exception it throws.
FromArraysPass_sortedStrictly(nl, a, i, last_index) ==
    LET index == a.query_point_index[i + 1]
    IN  IF index <= last_index
        THEN [err |-> "Unsorted", nl |-> nl, last_index |-> last_index]
        ELSE IF index >= nl.num_query_points
        THEN [err |-> "IndexOutOfRange", nl |-> nl, last_index |-> last_index]
        ELSE IF a.point_index[i + 1] >= nl.num_points
        THEN [err |-> "IndexOutOfRange", nl |-> nl, last_index |-> last_index]
        ELSE [err |-> "none", last_index |-> index,
              nl |-> [nl EXCEPT !.neighbors[i + 1] = <<last_index, a.point_index[i + 1]>>,
                                !.weights[i + 1] = a.weights[i + 1],
                                !.distances[i + 1] = a.distances[i + 1]]]

FromArraysPass(nl, a, i, last_index) ==
    LET index == a.query_point_index[i + 1]
    IN  IF index < last_index
        THEN [err |-> "Unsorted", nl |-> nl, last_index |-> last_index]
        ELSE IF index >= nl.num_query_points
        THEN [err |-> "IndexOutOfRange", nl |-> nl, last_index |-> last_index]
        ELSE IF a.point_index[i + 1] >= nl.num_points
        THEN [err |-> "IndexOutOfRange", nl |-> nl, last_index |-> last_index]
        ELSE [err |-> "none", last_index |-> index,
              nl |-> [nl EXCEPT !.neighbors[i + 1] = <<last_index, a.point_index[i + 1]>>,
                                !.weights[i + 1] = a.weights[i + 1],
                                !.distances[i + 1] = a.distances[i + 1]]]

RECURSIVE FromArraysLoop(_, _, _, _)
FromArraysLoop(nl, a, i, last_index) ==
    IF i >= a.num_bonds THEN [err |-> "none", nl |-> nl]
    ELSE LET pass == FromArraysPass(nl, a, i, last_index)
         IN  IF pass.err # "none" THEN [err |-> pass.err, nl |-> NullList]
             ELSE FromArraysLoop(pass.nl, a, i + 1, pass.last_index)

\* NeighborList::NeighborList(num_bonds, query_point_index, num_query_points,
\* point_index, num_points, distances, weights), the arguments in a.
NeighborListFromArrays(a) ==
    LET nl == [NeighborList EXCEPT
                  !.num_points = a.num_points,
                  !.num_query_points = a.num_query_points,
                  !.neighbors = prepare(<<>>, a.num_bonds, TRUE, <<0, 0>>),
                  !.weights = prepare(<<>>, a.num_bonds, TRUE, 0),
                  !.distances = prepare(<<>>, a.num_bonds, TRUE, 0),
                  !.counts = prepare(<<>>, a.num_query_points, TRUE, 0),
                  !.segments = prepare(<<>>, a.num_query_points, TRUE, 0)]
    IN  FromArraysLoop(nl, a, 0, 0)

\* array[index] = value; a write past the end changes nothing here and is
\* accounted for by OutOfRangeWrite.
Store(array, index, value) ==
    IF index < Len(array) THEN [array EXCEPT ![index + 1] = value] ELSE array

\* The loop of NeighborList::updateSegmentCounts from bond i on.
RECURSIVE updateSegmentCountsLoop(_, _, _, _)
updateSegmentCountsLoop(nl, i, last_index, counter) ==
    IF i >= getNumBonds(nl)
    THEN IF last_index >= 0
         THEN [nl EXCEPT !.counts = Store(@, last_index, counter)]
         ELSE nl
    ELSE LET index == nl.neighbors[i + 1][1]
         IN  IF index # last_index
             THEN LET nl1 == [nl EXCEPT !.segments = Store(@, index, i)]
                      nl2 == IF index > 0 /\ last_index >= 0
                             THEN [nl1 EXCEPT !.counts = Store(@, last_index, counter)]
                             ELSE nl1
                      counter2 == IF index > 0 THEN 0 ELSE counter
                  IN  updateSegmentCountsLoop(nl2, i + 1, index, counter2 + 1)
             ELSE updateSegmentCountsLoop(nl, i + 1, index, counter + 1)

\* Some m_segments[index] or m_counts[last_index] written by
\* updateSegmentCounts lies past the end of the array.
OutOfRangeWrite(nl) ==
    \E b \in 1..getNumBonds(nl) : nl.neighbors[b][1] >= Len(nl.counts)

\* NeighborList::updateSegmentCounts: the list after it; a write past the
\* end of an array is undefined: the run faults or goes on without it.
updateSegmentCounts(nl) ==
    LET done == updateSegmentCountsLoop(nl, 0, -1, 0)
    IN  IF OutOfRangeWrite(nl)
        THEN { [err |-> "Fault", nl |-> nl], [err |-> "none", nl |-> done] }
        ELSE { [err |-> "none", nl |-> done] }

\* The loop of NeighborList::filter from bond i on: the list compacted in
\* place and the number of bonds kept.
RECURSIVE filterLoop(_, _, _, _)
filterLoop(nl, filt, i, num_good) ==
    IF i >= getNumBonds(nl) THEN [nl |-> nl, num_good |-> num_good]
    ELSE IF filt[i + 1]
    THEN filterLoop([nl EXCEPT !.neighbors[num_good + 1] = nl.neighbors[i + 1],
                               !.weights[num_good + 1] = nl.weights[i + 1],
                               !.distances[num_good + 1] = nl.distances[i + 1]],
                    filt, i + 1, num_good + 1)
    ELSE filterLoop(nl, filt, i + 1, num_good)

\* NeighborList::filter(filt): the list after it and the value returned.
filter_resizeResets(nl, filt) ==
    LET loop == filterLoop(nl, filt, 0, 0)
        old_size == getNumBonds(nl)
    IN  [nl |-> resize(loop.nl, loop.num_good, TRUE),
         ret |-> UInt32Sub(UInt32(loop.num_good), UInt32(old_size))]

filter(nl, filt) ==
    LET loop == filterLoop(nl, filt, 0, 0)
        old_size == getNumBonds(nl)
    IN  [nl |-> resize(loop.nl, loop.num_good, FALSE),
         ret |-> UInt32Sub(UInt32(loop.num_good), UInt32(old_size))]

\* The loop of NeighborList::filter_r from bond i on.
RECURSIVE filter_rLoop(_, _, _, _, _)
filter_rLoop(nl, r_max, r_min, i, num_good) ==
    IF i >= getNumBonds(nl) THEN [nl |-> nl, num_good |-> num_good]
    ELSE IF nl.distances[i + 1] > r_min /\ nl.distances[i + 1] < r_max
    THEN filter_rLoop([nl EXCEPT !.neighbors[num_good + 1] = nl.neighbors[i + 1],
                                 !.weights[num_good + 1] = nl.weights[i + 1],
                                 !.distances[num_good + 1] = nl.distances[i + 1]],
                      r_max, r_min, i + 1, num_good + 1)
    ELSE filter_rLoop(nl, r_max, r_min, i + 1, num_good)

\* NeighborList::filter_r(r_max, r_min): the list after it and the value
\* returned.
filter_r(nl, r_max, r_min) ==
    LET loop == filter_rLoop(nl, r_max, r_min, 0, 0)
        old_size == getNumBonds(nl)
    IN  [nl |-> resize(loop.nl, loop.num_good, FALSE),
         ret |-> UInt32Sub(UInt32(loop.num_good), UInt32(old_size))]

\* ------------------------------------------------------------------ drivers
\* forLoopWrapper(begin, end, body, parallel): the ranges the body is run
\* on, in the order they are run; in parallel the range is cut in two chunks
\* that run in either order.
forLoopWrapper(begin, end, parallel) ==
    IF parallel
    THEN UNION { { <<<<begin, m>>, <<m, end>>>>, <<<<m, end>>, <<begin, m>>>> } : m \in begin..end }
    ELSE { <<<<begin, end>>>> }

\* The indices the loops `for (i = begin; i != end; ++i)` of the chunks run.
RECURSIVE LoopIndices(_)
LoopIndices(chunks) ==
    IF chunks = <<>> THEN <<>>
    ELSE LET begin == Head(chunks)[1]
             end == Head(chunks)[2]
         IN  vector([n \in 1..(end - begin) |-> begin + n - 1]) \o LoopIndices(Tail(chunks))

\* The bond at index `bond` of a list.
BondAt(nl, bond) ==
    NeighborBond(nl.neighbors[bond + 1][1], nl.neighbors[bond + 1][2],
                 nl.distances[bond + 1], nl.weights[bond + 1])

\* loopOverNeighbors, nlist != NULL: cf on every bond of the list.
LoopOverNeighborsList ==
    /\ ~nlist.null /\ err = "none" /\ driver = "none"
    /\ \E parallel \in BOOLEAN :
       \E chunks \in forLoopWrapper(0, getNumBonds(nlist), parallel) :
          LET bonds == LoopIndices(chunks)
          IN  fcalls' = vector([n \in 1..Len(bonds) |-> BondAt(nlist, bonds[n])])
    /\ driver' = "pairs_list"
    /\ UNCHANGED <<nlcopy, backend, m_box, m_ref_points, m_aabb_tree, err>>
    /\ UNCHANGED queries
    /\ UNCHANGED <<qpoints, qargs, qit, nlist, yields, gcalls>>
    /\ UNCHANGED itervars
    /\ UNCHANGED listvars

\* The values of a per-query iterator as the bonds of query i.
PointBonds(i, vals) ==
    vector([n \in 1..Len(vals) |->
               NeighborBond(i, vals[n].ref_id, vals[n].distance, DefaultWeight)])

\* The body of the live path of loopOverNeighbors over the query indices
\* of `order`: nb = it->next(); while (!it->end()) { cf(nb); nb = it->next(); }
RECURSIVE LiveLoop(_, _, _, _)
LiveLoop(order, iter, calls, ys) ==
    IF order = <<>> THEN { [fcalls |-> calls, yields |-> ys, err |-> "none"] }
    ELSE LET i == Head(order)
         IN  UNION { LET ys1 == [ys EXCEPT ![i + 1] = y.vals]
                     IN  IF y.err = "Hang"
                         THEN { [fcalls |-> calls \o PointBonds(i, y.vals), yields |-> ys1,
                                 err |-> y.err] }
                         ELSE IF y.err # "none"
                         THEN { [fcalls |-> calls, yields |-> ys1, err |-> y.err] }
                         ELSE LiveLoop(Tail(order), iter,
                                       calls \o PointBonds(i, pop_back(y.vals)), ys1) :
                     y \in PointYields(iter, i) }

\* loopOverNeighbors, nlist == NULL: the query is made from the arguments
\* and cf is run on what the per-query iterators return.
LoopOverNeighborsQuery ==
    /\ qit.live /\ nlist.null /\ err = "none" /\ driver = "none"
    /\ \E parallel \in BOOLEAN :
       \E chunks \in forLoopWrapper(0, Len(qpoints), parallel) :
       \E o \in LiveLoop(LoopIndices(chunks), qit, <<>>,
                         vector([n \in 1..Len(qpoints) |-> <<>>])) :
          /\ fcalls' = o.fcalls
          /\ yields' = o.yields
          /\ err' = o.err
    /\ driver' = "pairs_live"
    /\ UNCHANGED <<nlcopy, backend, m_box, m_ref_points, m_aabb_tree>>
    /\ UNCHANGED queries
    /\ UNCHANGED <<qpoints, qargs, qit, nlist, gcalls>>
    /\ UNCHANGED itervars
    /\ UNCHANGED listvars

\* NeighborList::bisection_search
RECURSIVE bisection_search(_, _, _, _)
bisection_search(nl, val, left, right) ==
    IF left + 1 >= right THEN left
    ELSE LET middle == (left + right) \div 2
         IN  IF nl.neighbors[middle + 1][1] < val
             THEN bisection_search(nl, val, middle, right)
             ELSE bisection_search(nl, val, left, middle)

find_first_index_searchOnly(nl, i) ==
    IF getNumBonds(nl) # 0
    THEN bisection_search(nl, i, 0, getNumBonds(nl))
    ELSE 0

\* NeighborList::find_first_index
find_first_index(nl, i) ==
    IF getNumBonds(nl) # 0
    THEN bisection_search(nl, i, 0, getNumBonds(nl))
            + (IF i > nl.neighbors[1][1] THEN 1 ELSE 0)
    ELSE 0

\* NeighborListPerPointIterator's constructor.  With m_current_index at
\* getNumBonds() the read of getNeighbors()(m_current_index, 0) is out of
\* range: the run faults, or goes on with whatever the read gave, the query
\* index or another value.
NeighborListPerPointIterator(nl, point_index) ==
    LET m_current_index == find_first_index(nl, point_index)
        read == IF m_current_index < getNumBonds(nl)
                THEN { [err |-> "none", value |-> nl.neighbors[m_current_index + 1][1]] }
                ELSE { [err |-> "Fault", value |-> 0],
                       [err |-> "none", value |-> point_index],
                       [err |-> "none", value |-> point_index + 1] }
    IN  { [err |-> x.err,
           it |-> [query_point_idx |-> point_index, current_index |-> m_current_index,
                   returned_point_index |-> x.value,
                   finished |-> (m_current_index = getNumBonds(nl))]] : x \in read }

\* NeighborListPerPointIterator::next
NeighborListPerPointIterator_next(nl, it) ==
    IF it.current_index = getNumBonds(nl)
    THEN [it |-> [it EXCEPT !.finished = TRUE],
          ret |-> NeighborBond(-1, -1, 0, 0)]
    ELSE LET nb == BondAt(nl, it.current_index)
         IN  [it |-> [it EXCEPT !.current_index = @ + 1, !.returned_point_index = nb.id],
              ret |-> nb]

\* NeighborListPerPointIterator::end
NeighborListPerPointIterator_end(it) ==
    (it.returned_point_index # it.query_point_idx) \/ it.finished

\* The loop of a per-query compute function,
\* for (nb = ppiter->next(); !ppiter->end(); nb = ppiter->next()) use nb:
\* the bonds it uses.
RECURSIVE DrivePerPoint(_, _)
DrivePerPoint(nl, it) ==
    LET res == NeighborListPerPointIterator_next(nl, it)
    IN  IF NeighborListPerPointIterator_end(res.it) THEN <<>>
        ELSE <<res.ret>> \o DrivePerPoint(nl, res.it)

\* The body of the bond-list path of loopOverNeighborsIterator over the
\* query indices of `order`.
RECURSIVE PerPointLoop(_, _, _)
PerPointLoop(order, nl, calls) ==
    IF order = <<>> THEN { [gcalls |-> calls, err |-> "none"] }
    ELSE LET i == Head(order)
         IN  UNION { IF niter.err # "none" THEN { [gcalls |-> calls, err |-> niter.err] }
                     ELSE PerPointLoop(Tail(order), nl,
                                       Append(calls, [i |-> i,
                                                      bonds |-> DrivePerPoint(nl, niter.it)])) :
                     niter \in NeighborListPerPointIterator(nl, i) }

\* loopOverNeighborsIterator, nlist != NULL: cf(i, niter) for every query
\* index, with a compute function that loops as HexaticTranslational's does.
LoopOverNeighborsIteratorList ==
    /\ ~nlist.null /\ err = "none" /\ driver = "none"
    /\ \E parallel \in BOOLEAN :
       \E chunks \in forLoopWrapper(0, Len(qpoints), parallel) :
       \E o \in PerPointLoop(LoopIndices(chunks), nlist, <<>>) :
          /\ gcalls' = o.gcalls
          /\ err' = o.err
    /\ driver' = "perquery_list"
    /\ UNCHANGED <<nlcopy, backend, m_box, m_ref_points, m_aabb_tree>>
    /\ UNCHANGED queries
    /\ UNCHANGED <<qpoints, qargs, qit, nlist, fcalls, yields>>
    /\ UNCHANGED itervars
    /\ UNCHANGED listvars

\* ------------------------------------------------------------------ generic queries
\* The value of num_neigh and of r_max that stands for "not set".
Unset == -1

\* RawPoints(box, points, n_points): a handle that holds the box and the
\* points and builds no tree.
RawPoints(box, pts) ==
    /\ m_box = box
    /\ m_ref_points = pts
    /\ m_aabb_tree = <<>>
    /\ backend = "RawPoints"

\* RawPoints::query and RawPoints::queryBall throw.
RawPoints_query(n, num_neighbors, exclude_ii) ==
    { [err |-> "Unsupported", it |-> NoQueryIterator] }

RawPoints_queryBall(n, r_max, exclude_ii) ==
    { [err |-> "Unsupported", it |-> NoQueryIterator] }

\* The tree-backed handle's query over n query points: the starting radius
\* and the scale are not arguments of query(points, n, num_neighbors,
\* exclude_ii), the handle chooses them.
AABBQuery_query(n, num_neighbors, exclude_ii) ==
    { [err |-> "none", it |-> NeighborQueryQueryIterator(n, exclude_ii, num_neighbors, r, scale)] :
         r \in 1..MaxR, scale \in Scales }

AABBQuery_queryBall(n, r_max, exclude_ii) ==
    { [err |-> "none", it |-> NeighborQueryBallIterator(n, exclude_ii, r_max)] }

\* The virtual calls this->query(...) and this->queryBall(...): what the
\* handle's class makes of them.
query(handle, n, num_neighbors, exclude_ii) ==
    IF handle = "RawPoints" THEN RawPoints_query(n, num_neighbors, exclude_ii)
    ELSE AABBQuery_query(n, num_neighbors, exclude_ii)

queryBall(handle, n, r_max, exclude_ii) ==
    IF handle = "RawPoints" THEN RawPoints_queryBall(n, r_max, exclude_ii)
    ELSE AABBQuery_queryBall(n, r_max, exclude_ii)

inferMode_radiusFirst(args) ==
    IF args.mode = "none"
    THEN IF args.r_max # Unset THEN [args EXCEPT !.mode = "ball"]
         ELSE IF args.num_neigh # Unset THEN [args EXCEPT !.mode = "nearest"]
         ELSE args
    ELSE args

\* NeighborQuery::inferMode
inferMode(args) ==
    IF args.mode = "none"
    THEN IF args.num_neigh # Unset THEN [args EXCEPT !.mode = "nearest"]
         ELSE IF args.r_max # Unset THEN [args EXCEPT !.mode = "ball"]
         ELSE args
    ELSE args

validateQueryArgs_ballUnchecked(args) ==
    LET a == inferMode(args)
    IN  [args |-> a,
         err |-> IF a.mode = "nearest" /\ a.num_neigh = Unset
                 THEN "InvalidQueryArgs" ELSE "none"]

\* NeighborQuery::validateQueryArgs: the arguments after inference, and the
\* exception thrown if any.
validateQueryArgs(args) ==
    LET a == inferMode(args)
    IN  [args |-> a,
         err |-> IF a.mode = "ball"
                 THEN IF a.r_max = Unset THEN "InvalidQueryArgs" ELSE "none"
                 ELSE IF a.mode = "nearest"
                 THEN IF a.num_neigh = Unset THEN "InvalidQueryArgs" ELSE "none"
                 ELSE "none"]

\* NeighborQuery::queryWithArgs: the exception or the iterator, and the
\* calls made on the handle.
queryWithArgs(handle, n, args) ==
    LET v == validateQueryArgs(args)
    IN  IF v.err # "none"
        THEN { [err |-> v.err, it |-> NoQueryIterator, calls |-> <<>>] }
        ELSE IF v.args.mode = "ball"
        THEN { [err |-> o.err, it |-> o.it,
                calls |-> <<QueryCall("queryBall", n, v.args.r_max, v.args.exclude_ii)>>] :
                  o \in queryBall(handle, n, v.args.r_max, v.args.exclude_ii) }
        ELSE IF v.args.mode = "nearest"
        THEN { [err |-> o.err, it |-> o.it,
                calls |-> <<QueryCall("query", n, v.args.num_neigh, v.args.exclude_ii)>>] :
                  o \in query(handle, n, v.args.num_neigh, v.args.exclude_ii) }
        ELSE { [err |-> "InvalidQueryArgs", it |-> NoQueryIterator, calls |-> <<>>] }

\* The arguments callers pass: every mode, num_neigh and r_max set or not,
\* and a scale.
CallerQueryArgs ==
    { QueryArgs(mode, num_neigh, r_max, scale, exclude_ii) :
         mode \in {"none", "ball", "nearest"},
         num_neigh \in {Unset} \cup 0..MaxK,
         r_max \in {Unset} \cup 0..MaxR,
         scale \in Scales,
         exclude_ii \in BOOLEAN }

\* A caller without a bond list makes a generic query over its query points.
QueryWithArgs ==
    /\ nlist.null /\ ~qit.live /\ err = "none" /\ driver = "none" /\ queries = <<>>
    /\ \E args \in CallerQueryArgs :
       \E o \in queryWithArgs(backend, Len(qpoints), args) :
          /\ qargs' = args
          /\ qit' = o.it
          /\ err' = o.err
          /\ queries' = queries \o o.calls
    /\ UNCHANGED <<nlcopy, backend, m_box, m_ref_points, m_aabb_tree>>
    /\ UNCHANGED <<qpoints, nlist, fcalls, yields, gcalls, driver>>
    /\ UNCHANGED itervars
    /\ UNCHANGED listvars

\* The arguments the drivers are run with: a caller that sets num_neigh
\* asks for at least one neighbor.
DriverQueryArgs == {a \in CallerQueryArgs : a.num_neigh # 0}

\* loopOverNeighbors, nlist == NULL, as one call: the driver makes the
\* generic query itself and runs cf on what the per-query iterators return.
LoopOverNeighborsArgs ==
    /\ nlist.null /\ ~qit.live /\ err = "none" /\ driver = "none"
    /\ \E args \in DriverQueryArgs, parallel \in BOOLEAN :
       \E q \in queryWithArgs(backend, Len(qpoints), args) :
          /\ qargs' = args
          /\ qit' = q.it
          /\ queries' = queries \o q.calls
          /\ IF q.err # "none"
             THEN /\ err' = q.err
                  /\ UNCHANGED <<fcalls, yields>>
             ELSE \E chunks \in forLoopWrapper(0, Len(qpoints), parallel) :
                  \E o \in LiveLoop(LoopIndices(chunks), q.it, <<>>,
                                    vector([n \in 1..Len(qpoints) |-> <<>>])) :
                     /\ fcalls' = o.fcalls
                     /\ yields' = o.yields
                     /\ err' = o.err
    /\ driver' = "pairs_live"
    /\ UNCHANGED <<nlcopy, backend, m_box, m_ref_points, m_aabb_tree>>
    /\ UNCHANGED <<qpoints, nlist, gcalls>>
    /\ UNCHANGED itervars
    /\ UNCHANGED listvars

\* The body of the live path of loopOverNeighborsIterator over the query
\* indices of `order`: it = iter->query(i); cf(i, it), with a compute
\* function that loops as HexaticTranslational's does.  An invocation that
\* ends in an exception of next() or never ends is recorded with the bonds
\* it had seen.
RECURSIVE PerPointLiveLoop(_, _, _)
PerPointLiveLoop(order, iter, calls) ==
    IF order = <<>> THEN { [gcalls |-> calls, err |-> "none"] }
    ELSE LET i == Head(order)
         IN  UNION { IF y.err = "none"
                     THEN PerPointLiveLoop(Tail(order), iter,
                                           Append(calls, [i |-> i,
                                                          bonds |-> PointBonds(i, pop_back(y.vals))]))
                     ELSE IF iter.mode = "ball"
                     THEN { [gcalls |-> calls, err |-> y.err] }
                     ELSE { [gcalls |-> Append(calls, [i |-> i, bonds |-> PointBonds(i, y.vals)]),
                             err |-> y.err] } :
                     y \in PointYields(iter, i) }

\* loopOverNeighborsIterator, nlist == NULL, as one call.
LoopOverNeighborsIteratorArgs ==
    /\ nlist.null /\ ~qit.live /\ err = "none" /\ driver = "none"
    /\ \E args \in DriverQueryArgs, parallel \in BOOLEAN :
       \E q \in queryWithArgs(backend, Len(qpoints), args) :
          /\ qargs' = args
          /\ qit' = q.it
          /\ queries' = queries \o q.calls
          /\ IF q.err # "none"
             THEN /\ err' = q.err
                  /\ UNCHANGED gcalls
             ELSE \E chunks \in forLoopWrapper(0, Len(qpoints), parallel) :
                  \E o \in PerPointLiveLoop(LoopIndices(chunks), q.it, <<>>) :
                     /\ gcalls' = o.gcalls
                     /\ err' = o.err
    /\ driver' = "perquery_live"
    /\ UNCHANGED <<nlcopy, backend, m_box, m_ref_points, m_aabb_tree>>
    /\ UNCHANGED <<qpoints, nlist, fcalls, yields>>
    /\ UNCHANGED itervars
    /\ UNCHANGED listvars

\* ------------------------------------------------------------------ bond list operations
MaxBonds == 3
MaxQueryIndex == 2
MaxDistance == 3

\* The (point_idx, distance, weight) a caller's arrays hold for a bond.
BondPayloads == { <<0, 1, 1>>, <<1, 2, 2>>, <<2, 3, 1>> }

\* The arguments of a construction from arrays.
FromArraysArguments ==
    UNION { { [NoOp EXCEPT !.name = "construct", !.num_bonds = B,
                           !.query_point_index = vector(q),
                           !.num_query_points = n_q,
                           !.point_index = vector([b \in 1..B |-> p[b][1]]),
                           !.num_points = n_p,
                           !.distances = vector([b \in 1..B |-> p[b][2]]),
                           !.weights = vector([b \in 1..B |-> p[b][3]])] :
                 q \in [1..B -> 0..MaxQueryIndex], p \in [1..B -> BondPayloads],
                 n_q \in {MaxQueryIndex, MaxQueryIndex + 1}, n_p \in {2, 3} } :
            B \in 0..MaxBonds }

\* A caller that has made no query constructs a bond list from its arrays.
FromArrays ==
    /\ nlist.null /\ err = "none" /\ op = NoOp
    /\ ~qit.live /\ driver = "none"
    /\ \E a \in FromArraysArguments :
          LET made == NeighborListFromArrays(a)
          IN  /\ op' = a
              /\ nlist' = made.nl
              /\ err' = made.err
    /\ UNCHANGED <<nlcopy, backend, m_box, m_ref_points, m_aabb_tree, lret>>
    /\ UNCHANGED queries
    /\ UNCHANGED <<qpoints, qargs, qit, fcalls, yields, gcalls, driver>>
    /\ UNCHANGED itervars

\* A caller filters its list with a mask, one flag for each bond.
Filter ==
    /\ ~nlist.null /\ err = "none"
    /\ \E filt \in [1..getNumBonds(nlist) -> BOOLEAN] :
          LET done == filter(nlist, vector(filt))
          IN  /\ op' = [NoOp EXCEPT !.name = "filter", !.filt = vector(filt)]
              /\ nlist' = done.nl
              /\ lret' = done.ret
    /\ UNCHANGED <<nlcopy, backend, m_box, m_ref_points, m_aabb_tree, err>>
    /\ UNCHANGED queries
    /\ UNCHANGED <<qpoints, qargs, qit, fcalls, yields, gcalls, driver>>
    /\ UNCHANGED itervars

\* A caller filters its list by distance: the call names two numbers, which
\* filter_r takes as r_max and r_min in this order.
FilterR ==
    /\ ~nlist.null /\ err = "none"
    /\ \E first \in 0..(MaxDistance + 1), second \in 0..(MaxDistance + 1) :
          LET done == filter_r(nlist, first, second)
          IN  /\ op' = [NoOp EXCEPT !.name = "filter_r", !.r_max = first, !.r_min = second]
              /\ nlist' = done.nl
              /\ lret' = done.ret
    /\ UNCHANGED <<nlcopy, backend, m_box, m_ref_points, m_aabb_tree, err>>
    /\ UNCHANGED queries
    /\ UNCHANGED <<qpoints, qargs, qit, fcalls, yields, gcalls, driver>>
    /\ UNCHANGED itervars

\* A caller resizes its list.
Resize ==
    /\ ~nlist.null /\ err = "none"
    /\ \E num_bonds \in 0..MaxBonds, reset \in BOOLEAN :
          /\ op' = [NoOp EXCEPT !.name = "resize", !.num_bonds = num_bonds, !.reset = reset]
          /\ nlist' = resize(nlist, num_bonds, reset)
    /\ UNCHANGED <<nlcopy, backend, m_box, m_ref_points, m_aabb_tree, err, lret>>
    /\ UNCHANGED queries
    /\ UNCHANGED <<qpoints, qargs, qit, fcalls, yields, gcalls, driver>>
    /\ UNCHANGED itervars

\* getCounts(): the counts are brought up to date and handed out.
GetCounts ==
    /\ ~nlist.null /\ err = "none"
    /\ \E o \in updateSegmentCounts(nlist) :
          /\ nlist' = o.nl
          /\ err' = o.err
    /\ op' = [NoOp EXCEPT !.name = "getCounts"]
    /\ UNCHANGED <<nlcopy, backend, m_box, m_ref_points, m_aabb_tree, lret>>
    /\ UNCHANGED queries
    /\ UNCHANGED <<qpoints, qargs, qit, fcalls, yields, gcalls, driver>>
    /\ UNCHANGED itervars

\* getSegments(): the segments are brought up to date and handed out.
GetSegments ==
    /\ ~nlist.null /\ err = "none"
    /\ \E o \in updateSegmentCounts(nlist) :
          /\ nlist' = o.nl
          /\ err' = o.err
    /\ op' = [NoOp EXCEPT !.name = "getSegments"]
    /\ UNCHANGED <<nlcopy, backend, m_box, m_ref_points, m_aabb_tree, lret>>
    /\ UNCHANGED queries
    /\ UNCHANGED <<qpoints, qargs, qit, fcalls, yields, gcalls, driver>>
    /\ UNCHANGED itervars

\* NeighborList::NeighborList(const NeighborList& other): the new list.
\* other is const: its accessors hand out the arrays as they are stored.
NeighborListCopy(other) ==
    [null |-> FALSE, num_points |-> 0, num_query_points |-> 0,
     neighbors |-> other.neighbors, weights |-> other.weights,
     distances |-> other.distances, counts |-> other.counts,
     segments |-> other.segments]

\* NeighborList::copy(other) on the list nl.
copy(nl, other) ==
    [nl EXCEPT !.num_points = other.num_points,
               !.num_query_points = other.num_query_points,
               !.neighbors = other.neighbors,
               !.weights = other.weights,
               !.distances = other.distances]

\* A caller constructs a list as a copy of its list.
CopyConstruct ==
    /\ ~nlist.null /\ err = "none" /\ nlcopy.null
    /\ nlcopy' = NeighborListCopy(nlist)
    /\ op' = [NoOp EXCEPT !.name = "copy_construct"]
    /\ UNCHANGED <<backend, m_box, m_ref_points, m_aabb_tree, err, lret>>
    /\ UNCHANGED queries
    /\ UNCHANGED <<qpoints, qargs, qit, nlist, fcalls, yields, gcalls, driver>>
    /\ UNCHANGED itervars

\* A caller constructs an empty list and copies its list into it.
Copy ==
    /\ ~nlist.null /\ err = "none" /\ nlcopy.null
    /\ nlcopy' = copy(NeighborList, nlist)
    /\ op' = [NoOp EXCEPT !.name = "copy"]
    /\ UNCHANGED <<backend, m_box, m_ref_points, m_aabb_tree, err, lret>>
    /\ UNCHANGED queries
    /\ UNCHANGED <<qpoints, qargs, qit, nlist, fcalls, yields, gcalls, driver>>
    /\ UNCHANGED itervars

InitQuery(boxes) ==
    /\ \E box \in boxes, pts \in PointArrays : AABBQuery(box, pts)
    /\ ball = NoBallIterator
    /\ knn = NoKnnIterator
    /\ ret = ITERATOR_TERMINATOR
    /\ out = <<>>
    /\ err = "none"
    /\ qpoints = <<>>
    /\ qargs = NoQueryArgs
    /\ qit = NoQueryIterator
    /\ nlist = NullList
    /\ fcalls = <<>>
    /\ yields = <<>>
    /\ gcalls = <<>>
    /\ driver = "none"
    /\ queries = <<>>
    /\ nlcopy = NullList
    /\ op = NoOp
    /\ lret = UInt32(0)

NextBall == QueryBall \/ BallNext

InitBall == InitQuery(Boxes)

SpecBall == InitBall /\ [][NextBall]_vars

NextKnn == QueryKnn \/ KnnNext

\* The k-NN iterator takes the minimum over the three plane distances of the
\* box; it is run in the 3D boxes.
InitKnn == InitQuery({b \in Boxes : ~b.is2D})

SpecKnn == InitKnn /\ [][NextKnn]_vars

\* Multi-point queries are run with the reference points as query points or
\* with up to MaxQuery other query points, in boxes periodic along the axis
\* the points lie on or not at all.
MaxQuery == 1
QueryPointArrays(pts) == {pts} \cup UNION { [1..n -> Coords] : n \in 1..MaxQuery }

InitMat ==
    /\ \E box \in {b \in Boxes : ~b.is2D /\ ~b.periodic[2] /\ ~b.periodic[3]},
          pts \in PointArrays :
          /\ AABBQuery(box, pts)
          /\ qpoints \in QueryPointArrays(pts)
    /\ ball = NoBallIterator
    /\ knn = NoKnnIterator
    /\ ret = ITERATOR_TERMINATOR
    /\ out = <<>>
    /\ err = "none"
    /\ qargs = NoQueryArgs
    /\ qit = NoQueryIterator
    /\ nlist = NullList
    /\ fcalls = <<>>
    /\ yields = <<>>
    /\ gcalls = <<>>
    /\ driver = "none"
    /\ queries = <<>>
    /\ nlcopy = NullList
    /\ op = NoOp
    /\ lret = UInt32(0)

NextMat ==
    \/ QueryBallPoints
    \/ QueryNearestPoints
    \/ ToNeighborList
    \/ LoopOverNeighborsList
    \/ LoopOverNeighborsQuery
    \/ LoopOverNeighborsIteratorList

SpecMat == InitMat /\ [][NextMat]_vars

\* Bond lists made from a caller's arrays: no query is involved.
InitList ==
    /\ AABBQuery(CHOOSE b \in Boxes : ~b.is2D /\ \A d \in 1..3 : ~b.periodic[d], <<>>)
    /\ ball = NoBallIterator
    /\ knn = NoKnnIterator
    /\ ret = ITERATOR_TERMINATOR
    /\ out = <<>>
    /\ err = "none"
    /\ qpoints = <<>>
    /\ qargs = NoQueryArgs
    /\ qit = NoQueryIterator
    /\ nlist = NullList
    /\ fcalls = <<>>
    /\ yields = <<>>
    /\ gcalls = <<>>
    /\ driver = "none"
    /\ queries = <<>>
    /\ nlcopy = NullList
    /\ op = NoOp
    /\ lret = UInt32(0)

NextList ==
    \/ FromArrays
    \/ Filter
    \/ FilterR
    \/ Resize
    \/ GetCounts
    \/ GetSegments

SpecList == InitList /\ [][NextList]_vars

\* Copies of bond lists made from a caller's arrays, before and after the
\* counts were asked for.
NextCopy ==
    \/ FromArrays
    \/ GetCounts
    \/ CopyConstruct
    \/ Copy

SpecCopy == InitList /\ [][NextCopy]_vars

\* Materialization of queries of ParQueries query points that are not the
\* reference points, in the box without periodic axes.
ParQueries == 2

InitPar ==
    /\ \E box \in {b \in Boxes : ~b.is2D /\ \A d \in 1..3 : ~b.periodic[d]},
          pts \in PointArrays :
          /\ AABBQuery(box, pts)
          /\ qpoints \in [1..ParQueries -> Coords]
    /\ ball = NoBallIterator
    /\ knn = NoKnnIterator
    /\ ret = ITERATOR_TERMINATOR
    /\ out = <<>>
    /\ err = "none"
    /\ qargs = NoQueryArgs
    /\ qit = NoQueryIterator
    /\ nlist = NullList
    /\ fcalls = <<>>
    /\ yields = <<>>
    /\ gcalls = <<>>
    /\ driver = "none"
    /\ queries = <<>>
    /\ nlcopy = NullList
    /\ op = NoOp
    /\ lret = UInt32(0)

NextPar ==
    \/ QueryBallPoints
    \/ QueryNearestPoints
    \/ ToNeighborList

SpecPar == InitPar /\ [][NextPar]_vars

\* Boxes with every combination of the periodicity flags and the 2D flag:
\* the flag of z may be set on a 2D box, where the code is to ignore it.
AllBoxes ==
    { b \in [L : {<<BoxL, BoxL, BoxL>>, <<BoxL, BoxL, 1>>},
             periodic : {<<x, y, z>> : x \in BOOLEAN, y \in BOOLEAN, z \in BOOLEAN},
             is2D : BOOLEAN] :
        b.is2D <=> (b.L[3] = 1) }

InitImages == InitQuery(AllBoxes)

SpecImages == InitImages /\ [][NextBall]_vars

\* Generic queries and the drivers on a handle of either class, with no bond
\* list or with one the caller made from its arrays; the query points are
\* the handle's points.
MaxArgPoints == 1

InitArgs ==
    /\ \E box \in {b \in Boxes : ~b.is2D /\ \A d \in 1..3 : ~b.periodic[d]},
          pts \in {a \in PointArrays : Len(a) <= MaxArgPoints} :
          /\ AABBQuery(box, pts) \/ RawPoints(box, pts)
          /\ qpoints = pts
    /\ ball = NoBallIterator
    /\ knn = NoKnnIterator
    /\ ret = ITERATOR_TERMINATOR
    /\ out = <<>>
    /\ err = "none"
    /\ qargs = NoQueryArgs
    /\ qit = NoQueryIterator
    /\ nlist = NullList
    /\ fcalls = <<>>
    /\ yields = <<>>
    /\ gcalls = <<>>
    /\ driver = "none"
    /\ queries = <<>>
    /\ nlcopy = NullList
    /\ op = NoOp
    /\ lret = UInt32(0)

NextArgs ==
    \/ QueryWithArgs
    \/ FromArrays
    \/ LoopOverNeighborsList
    \/ LoopOverNeighborsArgs
    \/ LoopOverNeighborsIteratorList
    \/ LoopOverNeighborsIteratorArgs

SpecArgs == InitArgs /\ [][NextArgs]_vars

\* ------------------------------------------------------------------ claims: ball iterator
\* The values next() returned before its first terminator.
RealPrefix(s) ==
    IF \E n \in 1..Len(s) : s[n] = ITERATOR_TERMINATOR
    THEN SubSeq(s, 1, (CHOOSE n \in 1..Len(s) :
                         /\ s[n] = ITERATOR_TERMINATOR
                         /\ \A m \in 1..(n - 1) : s[m] # ITERATOR_TERMINATOR) - 1)
    ELSE s

\* The pairs (j, d) with d the distance from q + s to point j, d < r, for an
\* enumerated image shift s.
BallPairs(box, pts, q, r) ==
    LET shifts == updateImageVectors(box, r).image_list
    IN  { p \in [ref_id : 0..(Len(pts) - 1), distance : 0..(2 * BoxL)] :
            /\ p.distance < r
            /\ \E n \in 1..Len(shifts) :
                  LET dv == VecSub(Vec(pts[p.ref_id + 1]), VecAdd(Vec(q), shifts[n]))
                  IN  dot(dv, dv) = p.distance * p.distance }

\* C1: the bonds a ball iterator returns before its first terminator are, each
\* exactly once and nothing else, the pairs (j, d) with d < r the distance from
\* an image of the query point to point j; until then they are distinct such
\* pairs.
C1_BallCompleteness ==
    ball.live =>
        LET got == RealPrefix(out)
            want == BallPairs(m_box, m_ref_points, ball.point, ball.r)
        IN  /\ \A m, n \in 1..Len(got) : m # n => got[m] # got[n]
            /\ {got[n] : n \in 1..Len(got)} \subseteq want
            /\ ball.finished => {got[n] : n \in 1..Len(got)} = want

\* A finished ball query in a periodic box over a tree with an inner node that
\* returned a bond found through a shifted image and a bond found unshifted.
C1_Witness ==
    /\ ball.live /\ ball.finished
    /\ Len(m_aabb_tree) > 1
    /\ m_box.periodic[1]
    /\ Len(RealPrefix(out)) >= 2
    /\ \E n \in 1..Len(out) :
          /\ out[n] # ITERATOR_TERMINATOR
          /\ out[n].distance # Max2(m_ref_points[out[n].ref_id + 1] - ball.point,
                                    ball.point - m_ref_points[out[n].ref_id + 1])
    /\ \E n \in 1..Len(out) :
          /\ out[n] # ITERATOR_TERMINATOR
          /\ out[n].distance = Max2(m_ref_points[out[n].ref_id + 1] - ball.point,
                                    ball.point - m_ref_points[out[n].ref_id + 1])

\* C6: a ball iterator's end() is false until next() first returns the
\* terminator and true from then on, the terminator is returned exactly when
\* all images are exhausted, and every call after it returns the terminator.
C6_BallProtocol ==
    ball.live =>
        /\ ball.finished <=> Terminators(out) > 0
        /\ ball.finished => ball.cur_image = ball.n_images
        /\ \A n \in 1..Len(out) :
              (out[n] = ITERATOR_TERMINATOR) <=> (n > Len(RealPrefix(out)))
        /\ Terminators(out) > 0 => ret = ITERATOR_TERMINATOR

\* next() was called again after the terminator, following two real bonds.
C6_Witness ==
    /\ ball.live /\ ball.finished
    /\ Terminators(out) = MaxTerminators
    /\ Len(RealPrefix(out)) >= 2

\* ------------------------------------------------------------------ claims: k-NN iterator
\* The distance from the query point to the nearest periodic image of point j.
ImageDistance(box, pts, q, j) ==
    LET cs == ImageCoefficients(box)
        d(n) == LET dv == VecSub(Vec(pts[j + 1]), VecAdd(Vec(q), ImageVector(box, cs[n])))
                IN  dot(dv, dv)
        best == CHOOSE n \in 1..Len(cs) : \A m \in 1..Len(cs) : d(n) <= d(m)
    IN  sqrt(d(best))

MinPlaneDistance(box) ==
    LET npd == getNearestPlaneDistance(box)
    IN  Min2(Min2(npd[1], npd[2]), npd[3])

\* The points within half the smallest plane distance of the query point.
Reachable(box, pts, q) ==
    { j \in 0..(Len(pts) - 1) : 2 * ImageDistance(box, pts, q, j) < MinPlaneDistance(box) }

\* C2: a finished k-NN iterator has returned exactly k bonds when at least k
\* points lie within half the smallest plane distance of the query point,
\* and otherwise one bond for each such point.
C2_KnnAdequacy ==
    (knn.live /\ knn.finished /\ err = "none") =>
        LET got == RealPrefix(out)
            reach == Reachable(m_box, m_ref_points, knn.point)
        IN  IF Cardinality(reach) >= knn.k
            THEN Len(got) = knn.k
            ELSE /\ Len(got) = Cardinality(reach)
                 /\ {got[n].ref_id : n \in 1..Len(got)} = reach

\* C3: end() of a k-NN iterator is true only after next() has returned the
\* terminator; after a call that returned a real bond it is false.
C3_KnnEndAfterTerminator ==
    (knn.live /\ knn.finished) => Terminators(out) > 0

\* C4: a consumer that calls next() on a k-NN iterator until end() is true
\* stops after finitely many calls.  The iterator after a call is a function
\* of the iterator before it, so a call that returns with end() false and
\* the iterator as it was is followed by the same call for ever: every call
\* that leaves end() false changes the iterator.
C4_KnnTermination ==
    [][(knn.live /\ knn'.live /\ err' = "none" /\ ~knn'.finished) => knn' # knn]_vars

\* C5: the bonds a k-NN iterator returns are in non-decreasing
\* (distance, point index) order, and a point within the final radius that was
\* not returned is no nearer than any returned point.
C5_KnnMonotone ==
    knn.live =>
        LET got == RealPrefix(out)
        IN  /\ \A m, n \in 1..Len(got) : m < n => ~NeighborPointLess(got[n], got[m])
            /\ knn.finished =>
                  \A j \in 0..(Len(m_ref_points) - 1) :
                      (/\ \A n \in 1..Len(got) : got[n].ref_id # j
                       /\ ImageDistance(m_box, m_ref_points, knn.point, j) < knn.r)
                      => \A n \in 1..Len(got) :
                             got[n].distance <= ImageDistance(m_box, m_ref_points, knn.point, j)

\* ------------------------------------------------------------------ claims: materialization and drivers
\* The bonds of a list, and those of query i, in list order.
ListBonds(nl) == vector([b \in 1..getNumBonds(nl) |-> BondAt(nl, b - 1)])
BondsOfQuery(bonds, i) == SelectSeq(bonds, LAMBDA nb : nb.id = i)

\* The (query_idx, point_idx, distance) of bonds.
Triples(bonds) == vector([n \in 1..Len(bonds) |->
                             <<bonds[n].id, bonds[n].ref_id, bonds[n].distance>>])

\* C7: the list materialized from a query with exclude_ii over identical
\* query and reference points has no bond from a point to itself, and for a
\* k-NN query every query point with at least k other points in reach has
\* exactly k bonds.
C7_MaterializeExcludeSelf ==
    (~nlist.null /\ qargs.exclude_ii /\ qpoints = m_ref_points) =>
        /\ \A b \in 1..getNumBonds(nlist) : nlist.neighbors[b][1] # nlist.neighbors[b][2]
        /\ qargs.mode = "nearest" =>
              \A i \in 0..(Len(qpoints) - 1) :
                  Cardinality(Reachable(m_box, m_ref_points, qpoints[i + 1]) \ {i})
                      >= qargs.num_neigh
                  => Len(BondsOfQuery(ListBonds(nlist), i)) = qargs.num_neigh

\* What the per-query iterator of query i of iterator q may yield before
\* its terminator, as bonds, without the self-pair where q excludes it.
LiveBonds(q, i) ==
    { KeepBonds(i, RealPrefix(y.vals), q.exclude_ii) :
         y \in { z \in PointYields(q, i) : z.err = "none" } }

\* C8: the per-pair driver run over the list materialized from a query
\* invokes f on the same multiset of (query_idx, point_idx, distance) as the
\* per-query iterators of the query yield before their terminators.
C8_RoundTrip ==
    (driver = "pairs_list") =>
        /\ \A n \in 1..Len(fcalls) : fcalls[n].id \in 0..(Len(qpoints) - 1)
        /\ \A i \in 0..(Len(qpoints) - 1) :
              \E live \in LiveBonds(qit, i) :
                  SeqToBag(Triples(BondsOfQuery(fcalls, i))) = SeqToBag(Triples(live))

\* C9: on the live path the per-pair driver invokes f, for every query
\* index, once on each bond its per-query iterator yields that is not the
\* terminator, in the order yielded, and never on the terminator.
C9_LivePathEveryBond ==
    (driver = "pairs_live" /\ err = "none") =>
        /\ \A n \in 1..Len(fcalls) : fcalls[n].ref_id # ITERATOR_TERMINATOR.ref_id
        /\ \A i \in 0..(Len(qpoints) - 1) :
              BondsOfQuery(fcalls, i)
                 = PointBonds(i, SelectSeq(yields[i + 1], LAMBDA np : np # ITERATOR_TERMINATOR))

\* C10: on the bond-list path the per-query driver invokes g once for each
\* query index, and the iterator g is handed delivers the bonds of the list
\* with that query index, in list order, also for an index without bonds,
\* an index beyond every index of the list and an empty list.
C10_PerQueryListPath ==
    (driver = "perquery_list") =>
        /\ Len(gcalls) = Len(qpoints)
        /\ \A i \in 0..(Len(qpoints) - 1) :
              Cardinality({m \in 1..Len(gcalls) : gcalls[m].i = i}) = 1
        /\ \A m \in 1..Len(gcalls) :
              gcalls[m].bonds = BondsOfQuery(ListBonds(nlist), gcalls[m].i)

\* ------------------------------------------------------------------ claims: bond list
\* The query indices of a list are non-decreasing.
SortedByQuery(nl) ==
    \A b \in 1..(getNumBonds(nl) - 1) : nl.neighbors[b][1] <= nl.neighbors[b + 1][1]

\* The number of bonds of query q, and the index of its first bond.
BondCount(nl, q) == Cardinality({b \in 1..getNumBonds(nl) : nl.neighbors[b][1] = q})
BondsBefore(nl, q) == Cardinality({b \in 1..getNumBonds(nl) : nl.neighbors[b][1] < q})

\* C11: a list constructed from arrays holds, at every bond index, the
\* query index, point index, distance and weight the arrays hold there.
C11_FromArraysStores ==
    (op.name = "construct" /\ err = "none") =>
        /\ getNumBonds(nlist) = op.num_bonds
        /\ \A b \in 1..op.num_bonds :
              /\ nlist.neighbors[b] = <<op.query_point_index[b], op.point_index[b]>>
              /\ nlist.distances[b] = op.distances[b]
              /\ nlist.weights[b] = op.weights[b]

\* The arrays of a construction are sorted by query index; their indices
\* are below the declared numbers of query points and points.
ArgumentsSorted(a) ==
    \A b \in 1..(a.num_bonds - 1) : a.query_point_index[b] <= a.query_point_index[b + 1]
ArgumentsInRange(a) ==
    \A b \in 1..a.num_bonds :
        a.query_point_index[b] < a.num_query_points /\ a.point_index[b] < a.num_points

\* C12: construction from arrays fails with Unsorted when the query indices
\* are not non-decreasing, with IndexOutOfRange when an index is not below
\* its declared bound (with one of the two when both are the case), and
\* succeeds when the arrays are sorted and in range.
C12_FromArraysErrors ==
    (op.name = "construct") =>
        /\ (ArgumentsSorted(op) /\ ArgumentsInRange(op)) => (err = "none" /\ ~nlist.null)
        /\ (~ArgumentsSorted(op) /\ ArgumentsInRange(op)) => err = "Unsorted"
        /\ (ArgumentsSorted(op) /\ ~ArgumentsInRange(op)) => err = "IndexOutOfRange"
        /\ (~ArgumentsSorted(op) /\ ~ArgumentsInRange(op))
              => err \in {"Unsorted", "IndexOutOfRange"}
        /\ err # "none" => nlist.null

\* A construction from three bonds, all in range, two of them of the same
\* query, was refused as unsorted.
C12_Witness ==
    /\ op.name = "construct" /\ op.num_bonds = MaxBonds
    /\ err = "Unsorted"
    /\ ArgumentsInRange(op)
    /\ op.query_point_index[1] = op.query_point_index[2]

\* C13: filter_r(rmin, rmax) leaves exactly the bonds with
\* rmin < distance < rmax, the first number of the call being rmin and the
\* second rmax.
C13_FilterRKeepsBetween ==
    [][op'.name = "filter_r" =>
          ListBonds(nlist') = SelectSeq(ListBonds(nlist),
                                        LAMBDA nb : op'.r_max < nb.distance
                                                    /\ nb.distance < op'.r_min)]_vars

\* The elements of s whose flag in mask is true, in order.
RECURSIVE Masked(_, _)
Masked(s, mask) ==
    IF s = <<>> THEN <<>>
    ELSE (IF Head(mask) THEN <<Head(s)>> ELSE <<>>) \o Masked(Tail(s), Tail(mask))

\* C14: filter(mask) leaves exactly the bonds whose flag is true, with the
\* values they had and in the order they had; the list does not grow and
\* stays sorted by query index.
C14_FilterKeepsMasked ==
    [][op'.name = "filter" =>
          /\ ListBonds(nlist') = Masked(ListBonds(nlist), op'.filt)
          /\ getNumBonds(nlist') <= getNumBonds(nlist)
          /\ SortedByQuery(nlist) => SortedByQuery(nlist')]_vars

\* A filter dropped the first of three bonds and kept a later one of
\* another query.
C14_Witness ==
    /\ op.name = "filter" /\ Len(op.filt) = MaxBonds
    /\ ~op.filt[1] /\ op.filt[3]
    /\ getNumBonds(nlist) >= 1
    /\ nlist.neighbors[getNumBonds(nlist)][1] > 0

\* An unsigned int holds the number n: no number below zero is held.
HoldsNumber(u, n) == n >= 0 /\ u = UInt32(n)

\* C15: filter and filter_r return the new number of bonds minus the old
\* one, a number that is at most zero and is zero exactly when no bond was
\* removed.
C15_FilterReturnsChange ==
    [][op'.name \in {"filter", "filter_r"} =>
          LET change == getNumBonds(nlist') - getNumBonds(nlist)
          IN  /\ change <= 0
              /\ HoldsNumber(lret', change)]_vars

\* C16: the counts and segments an accessor hands out after the list was
\* changed agree with the bonds the list now holds.
C16_AccessorsNotStale ==
    (op.name \in {"getCounts", "getSegments"} /\ err = "none" /\ SortedByQuery(nlist)) =>
        \A q \in 0..(nlist.num_query_points - 1) :
            /\ nlist.counts[q + 1] = BondCount(nlist, q)
            /\ BondCount(nlist, q) > 0 =>
                  /\ nlist.neighbors[nlist.segments[q + 1] + 1][1] = q
                  /\ \A b \in 1..nlist.segments[q + 1] : nlist.neighbors[b][1] # q

\* C17: updateSegmentCounts on a list sorted by query index sets counts[q]
\* to the number of bonds of q for every query index, whatever it held, and
\* segments[q] to find_first_index(q) for every q that has bonds.
C17_SegmentsConsistency ==
    (~nlist.null /\ err = "none" /\ SortedByQuery(nlist)) =>
        \A o \in updateSegmentCounts(nlist) :
            o.err = "none" =>
                \A q \in 0..(nlist.num_query_points - 1) :
                    /\ o.nl.counts[q + 1] = BondCount(nlist, q)
                    /\ BondCount(nlist, q) > 0 =>
                          o.nl.segments[q + 1] = find_first_index(nlist, q)

\* C18: on a list sorted by query index find_first_index(q) is the number
\* of bonds with a query index below q: the first bond of q when q has
\* bonds, the place q would be inserted at when it has none.
C18_FindFirstIndex ==
    (~nlist.null /\ SortedByQuery(nlist)) =>
        \A q \in 0..(MaxQueryIndex + 2) : find_first_index(nlist, q) = BondsBefore(nlist, q)

\* A list whose bonds are of queries 0, 2 and 2: query 1 lies between
\* them without bonds, query 3 beyond them.
C18_Witness ==
    /\ ~nlist.null /\ getNumBonds(nlist) = 3
    /\ nlist.neighbors[1][1] = 0 /\ nlist.neighbors[2][1] = 2 /\ nlist.neighbors[3][1] = 2

\* ------------------------------------------------------------------ claims: order, box
\* Bond left does not come after bond right in the order by query index,
\* then distance, then point index.
NotAfter(left, right) ==
    \/ left.id < right.id
    \/ left.id = right.id /\ left.distance < right.distance
    \/ left.id = right.id /\ left.distance = right.distance /\ left.ref_id <= right.ref_id

\* C19: for every set of query points and every schedule of the parallel
\* tasks, the bonds of a materialized list ascend in query index, then
\* distance, then point index.
C19_MaterializedSorted ==
    ~nlist.null =>
        \A b \in 1..(getNumBonds(nlist) - 1) :
            NotAfter(ListBonds(nlist)[b], ListBonds(nlist)[b + 1])

\* A materialized list of two queries, one of them with two bonds of
\* different distances.
C19_Witness ==
    /\ ~nlist.null /\ getNumBonds(nlist) >= 3
    /\ \E b \in 1..(getNumBonds(nlist) - 1) :
          /\ nlist.neighbors[b][1] = nlist.neighbors[b + 1][1]
          /\ nlist.distances[b] < nlist.distances[b + 1]
    /\ \E b \in 1..(getNumBonds(nlist) - 1) :
          nlist.neighbors[b][1] < nlist.neighbors[b + 1][1]

\* C20: a ball query fails with BoxTooSmall exactly when a periodic axis
\* (z only in a 3D box) has a nearest-plane distance of at most twice the
\* cutoff; an axis that is not periodic never makes it fail, and a query
\* that failed produces no bond.
C20_BoxTooSmall ==
    (ball.r >= 0 /\ (ball.live \/ err = "BoxTooSmall")) =>
        LET npd == getNearestPlaneDistance(m_box)
            small == \E d \in 1..3 :
                        /\ m_box.periodic[d]
                        /\ (d = 3 => ~m_box.is2D)
                        /\ npd[d] <= 2 * ball.r
        IN  /\ (err = "BoxTooSmall") <=> small
            /\ err = "BoxTooSmall" => (out = <<>> /\ ~ball.live)

\* A query failed in a box with an axis that is not periodic, the cutoff
\* being exactly half the plane distance of a periodic axis.
C20_Witness ==
    /\ err = "BoxTooSmall"
    /\ \E d \in 1..3 : ~m_box.periodic[d]
    /\ \E d \in 1..3 : m_box.periodic[d] /\ getNearestPlaneDistance(m_box)[d] = 2 * ball.r

\* ------------------------------------------------------------------ claims: images
\* The number of periodic dimensions of a box, z counted in 3D only.
PeriodicDimensions(box) ==
    Cardinality({d \in 1..3 : box.periodic[d] /\ (d = 3 => ~box.is2D)})

\* v is i*a + j*b + k*c with i, j, k in {-1, 0, 1} and a coefficient of 0
\* on every axis that is not periodic and on z in 2D.
IsImageShift(box, v) ==
    \E i, j, k \in {-1, 0, 1} :
        /\ v = VecAdd(VecAdd(VecScale(i, getLatticeVector(box, 0)),
                             VecScale(j, getLatticeVector(box, 1))),
                      VecScale(k, getLatticeVector(box, 2)))
        /\ (i # 0 => box.periodic[1])
        /\ (j # 0 => box.periodic[2])
        /\ (k # 0 => (box.periodic[3] /\ ~box.is2D))

\* C21: for every combination of the periodicity flags and the 2D flag the
\* image list of a ball iterator has 3^d entries, d the number of periodic
\* dimensions (z counted in 3D only); the first is the zero shift; the
\* entries are pairwise distinct combinations i*a + j*b + k*c with
\* coefficients in {-1, 0, 1}, 0 on every axis that is not periodic and on
\* z in 2D.
C21_ImageEnumeration ==
    ball.live =>
        /\ ball.n_images = Pow3(PeriodicDimensions(m_box))
        /\ Len(ball.image_list) = ball.n_images
        /\ ball.image_list[1] = <<0, 0, 0>>
        /\ \A n \in 1..Len(ball.image_list) : IsImageShift(m_box, ball.image_list[n])
        /\ \A n, m \in 1..Len(ball.image_list) :
              ball.image_list[n] = ball.image_list[m] => n = m

\* A ball iterator over a 2D box whose flags are set for x, y and z: nine
\* images, none of them along z.
C21_Witness ==
    /\ ball.live /\ m_box.is2D
    /\ m_box.periodic = <<TRUE, TRUE, TRUE>>
    /\ Len(ball.image_list) = 9

\* ------------------------------------------------------------------ claims: materialization
\* C25: in toNeighborList the element pop_back removes after the loop of a
\* query point is the terminator that loop appended: the buffer is never
\* empty at the pop_back, and the list holds, for every query point, every
\* bond its iterator yielded before the terminator (without the self-pair
\* where it is excluded), for ball and k-NN iterators alike.
C25_PopBackRemovesSentinel ==
    (qit.live /\ driver = "none" /\ (~nlist.null \/ err = "Fault")) =>
        /\ err # "Fault"
        /\ \A i \in 0..(Len(qpoints) - 1) :
              /\ \A y \in PointYields(qit, i) :
                    y.err = "none" =>
                        LET buffer == KeepBonds(i, y.vals, qit.exclude_ii)
                        IN  /\ buffer # <<>>
                            /\ back(buffer).ref_id = ITERATOR_TERMINATOR.ref_id
              /\ \E live \in LiveBonds(qit, i) :
                    SeqToBag(Triples(BondsOfQuery(ListBonds(nlist), i)))
                        = SeqToBag(Triples(live))

\* C27: toNeighborList leaves the k of a k-NN iterator as it found it, when
\* it returns a list as well as when it throws, so that a second
\* materialization asks for the same number of neighbours.
C27_ToNeighborListKeepsK ==
    [][(qit.live /\ qit.mode = "nearest" /\ err' \in {"none", "BoxTooSmall"})
          => qit'.k = qit.k]_vars

\* The schedule of the run without parallelism: the query indices in
\* ascending order, all in the buffer of one thread.
SequentialSchedule(n) == vector([a \in 1..n |-> <<a - 1, 1>>])

\* The lists the run without parallelism may return for iterator q.
SequentialLists(q) ==
    { LinearBondsToList(o.bonds, q) :
         o \in { x \in RunSchedule(SequentialSchedule(q.n_query_points),
                                   vector([t \in 1..NumThreads |-> <<>>]), q) :
                    x.err = "none" } }

\* C29: whatever ranges the query indices are split into and whatever
\* thread's buffer a range is collected in, toNeighborList returns a list
\* that the sequential run with one buffer returns; what a query
\* contributes does not depend on the queries that shared its buffer.
C29_ParallelDeterministic ==
    (qit.live /\ ~nlist.null /\ err = "none") => nlist \in SequentialLists(qit)

\* ------------------------------------------------------------------ claims: k-NN build phase
\* C26: a call of next() on a k-NN iterator whose build phase ends with an
\* empty buffer returns the terminator and leaves the iterator finished.
C26_KnnEmptyBuildReturnsTerminator ==
    [][(/\ knn.live /\ ~knn.finished /\ knn.current_neighbors = <<>>
        /\ err = "none" /\ err' = "none"
        /\ LET built == KnnBuild(knn, m_box, m_aabb_tree, m_ref_points)
           IN  built.err = "none" /\ built.it.current_neighbors = <<>>)
          => (ret' = ITERATOR_TERMINATOR /\ knn'.finished)]_vars

\* C28: in a box with a periodic axis a call of next() on a k-NN iterator
\* whose radius is below half the smallest plane distance does not fail
\* with BoxTooSmall: the radii it scales to are queried only while they pass
\* the check of the images, and on overrun the call returns what was found.
C28_KnnExpansionNeverTooSmall ==
    [][(/\ knn.live /\ err = "none"
        /\ \E d \in 1..3 : m_box.periodic[d]
        /\ 2 * knn.r < MinPlaneDistance(m_box))
          => err' # "BoxTooSmall"]_vars

\* ------------------------------------------------------------------ claims: tree traversal
\* The leaves of the tree that the source's stackless loop enters while it
\* walks one image from the iterator position it, and the node index at
\* which the loop ends; a pass that stays in its node is a pass inside a
\* leaf's bucket.
RECURSIVE SourceTraversal(_, _, _, _, _)
SourceTraversal(it, tree, pts, visited, fuel) ==
    IF it.cur_node_idx >= Len(tree)
    THEN [terminated |-> TRUE, index |-> it.cur_node_idx, leaves |-> visited]
    ELSE IF fuel = 0
    THEN [terminated |-> FALSE, index |-> it.cur_node_idx, leaves |-> visited]
    ELSE LET pass == BallLoopPass(it, tree, pts)
         IN  SourceTraversal(pass.it, tree, pts,
                             IF pass.it.cur_node_idx = it.cur_node_idx
                             THEN visited \cup {it.cur_node_idx} ELSE visited,
                             fuel - 1)

\* The traversal as the specification writes it: i += 1 on a hit, i +=
\* node[i].skip on a miss.
RECURSIVE ReferenceTraversal(_, _, _, _, _, _)
ReferenceTraversal(tree, centre, r, i, visited, fuel) ==
    IF i >= Len(tree)
    THEN [terminated |-> TRUE, index |-> i, leaves |-> visited]
    ELSE IF fuel = 0
    THEN [terminated |-> FALSE, index |-> i, leaves |-> visited]
    ELSE IF overlap(tree[i + 1], centre, r)
    THEN ReferenceTraversal(tree, centre, r, i + 1,
                            IF tree[i + 1].leaf THEN visited \cup {i} ELSE visited, fuel - 1)
    ELSE ReferenceTraversal(tree, centre, r, i + tree[i + 1].skip, visited, fuel - 1)

\* More passes than either loop makes when it ends: every pass of a loop that
\* ends moves to a later node or to a later point of a bucket.
TraversalSteps(tree, pts) == Len(tree) + Len(pts) + 1

\* Node a is a proper ancestor of node i: i lies in the subtree below a.
IsAncestor(tree, a, i) == a < i /\ i <= a + tree[a + 1].skip

\* The leaves whose own box and all ancestors' boxes overlap the sphere.
OverlappingLeaves(tree, centre, r) ==
    {i \in 0..(Len(tree) - 1) :
        /\ tree[i + 1].leaf
        /\ overlap(tree[i + 1], centre, r)
        /\ \A a \in 0..(Len(tree) - 1) :
              IsAncestor(tree, a, i) => overlap(tree[a + 1], centre, r)}

ImageCentre(it, c) == VecAdd(Vec(it.point), it.image_list[c + 1])

SourceWalk(c) ==
    SourceTraversal([ball EXCEPT !.cur_image = c, !.cur_node_idx = 0, !.cur_p = 0],
                    m_aabb_tree, m_ref_points, {},
                    TraversalSteps(m_aabb_tree, m_ref_points))

ReferenceWalk(c) ==
    ReferenceTraversal(m_aabb_tree, ImageCentre(ball, c), ball.r, 0, {},
                       TraversalSteps(m_aabb_tree, m_ref_points))

SourceWalkExact(c) ==
    /\ SourceWalk(c).terminated
    /\ SourceWalk(c).index = Len(m_aabb_tree)
    /\ SourceWalk(c).leaves = OverlappingLeaves(m_aabb_tree, ImageCentre(ball, c), ball.r)

ReferenceWalkExact(c) ==
    /\ ReferenceWalk(c).terminated
    /\ ReferenceWalk(c).index = Len(m_aabb_tree)
    /\ ReferenceWalk(c).leaves = SourceWalk(c).leaves

GenericQueryMade == err = "InvalidQueryArgs" \/ queries # <<>>

\* C22: with mode NONE the query is dispatched as NEAREST whenever num_neigh
\* is set, also when r_max is set too, and as BALL when num_neigh is unset
\* and r_max is set; a mode given as BALL or NEAREST is dispatched as given.
C22_ModeInference ==
    GenericQueryMade =>
        /\ (qargs.mode = "none" /\ qargs.num_neigh # Unset) =>
              /\ queries = <<QueryCall("query", Len(qpoints), qargs.num_neigh, qargs.exclude_ii)>>
              /\ qit.live => qit.mode = "nearest" /\ qit.k = qargs.num_neigh
        /\ (qargs.mode = "none" /\ qargs.num_neigh = Unset /\ qargs.r_max # Unset) =>
              /\ queries = <<QueryCall("queryBall", Len(qpoints), qargs.r_max, qargs.exclude_ii)>>
              /\ qit.live => qit.mode = "ball" /\ qit.r = qargs.r_max
        /\ qargs.mode = "ball" =>
              /\ \A n \in 1..Len(queries) : queries[n].fn = "queryBall"
              /\ qit.live => qit.mode = "ball"
        /\ qargs.mode = "nearest" =>
              /\ \A n \in 1..Len(queries) : queries[n].fn = "query"
              /\ qit.live => qit.mode = "nearest"

\* A caller that gave no mode and both num_neigh and r_max holds a k-NN
\* iterator.
C22_Witness ==
    /\ qargs.mode = "none" /\ qargs.num_neigh # Unset /\ qargs.r_max # Unset
    /\ Len(queries) = 1 /\ queries[1].fn = "query"
    /\ qit.live /\ qit.mode = "nearest"
    /\ driver = "none"

\* The arguments the claim lists as invalid.
InvalidCase(args) ==
    \/ args.mode = "none" /\ args.num_neigh = Unset /\ args.r_max = Unset
    \/ args.mode = "ball" /\ args.r_max = Unset
    \/ args.mode = "nearest" /\ args.num_neigh = Unset

\* C23: a generic query fails with InvalidQueryArgs exactly for mode NONE
\* with neither num_neigh nor r_max set, mode BALL with r_max unset and mode
\* NEAREST with num_neigh unset; it fails at creation: no iterator is handed
\* out, the handle is not called and no next() has run.
C23_InvalidQueryArgs ==
    GenericQueryMade =>
        /\ InvalidCase(qargs) <=> err = "InvalidQueryArgs"
        /\ err = "InvalidQueryArgs" =>
              /\ ~qit.live
              /\ queries = <<>>
              /\ fcalls = <<>> /\ gcalls = <<>> /\ yields = <<>>

\* A caller asked for a ball query and set num_neigh but not r_max: the
\* query was refused.
C23_Witness ==
    /\ qargs.mode = "ball" /\ qargs.r_max = Unset /\ qargs.num_neigh # Unset
    /\ err = "InvalidQueryArgs"
    /\ backend = "AABBQuery"
    /\ ~qit.live

\* C24: on a raw-points handle every query that reaches the handle, k-NN or
\* ball, is rejected with Unsupported; a driver given a bond list completes
\* without a call of query or queryBall on the handle; a driver given no
\* bond list (and valid arguments) ends with Unsupported and has invoked the
\* caller's function zero times.
C24_RawPointsUnsupported ==
    backend = "RawPoints" =>
        /\ queries # <<>> => err = "Unsupported" /\ ~qit.live
        /\ driver \in {"pairs_list", "perquery_list"} => queries = <<>> /\ err = "none"
        /\ driver \in {"pairs_live", "perquery_live"} =>
              /\ ~InvalidCase(qargs) => err = "Unsupported"
              /\ fcalls = <<>> /\ gcalls = <<>>

\* C31: a k-NN iterator made by the dispatch of a QueryArgs record has
\* args.num_neigh as k, args.exclude_ii as its exclusion flag, args.r_max as
\* its first search radius, when the caller set one, and args.scale as its
\* growth factor.
C31_NearestKeepsArgs ==
    (qit.live /\ qit.mode = "nearest" /\ queries # <<>> /\ qargs.r_max # Unset) =>
        /\ qit.k = qargs.num_neigh
        /\ qit.exclude_ii = qargs.exclude_ii
        /\ qit.r = qargs.r_max
        /\ qit.scale = qargs.scale

\* ------------------------------------------------------------------ claims: sizes of a list
\* C32: the list materialized from a query of M query points against N
\* reference points has num_query_points = M and num_points = N, every
\* bond's query index is below getNumQueryPoints() and its point index
\* below getNumPoints(), and validate with the true sizes does not throw.
C32_MaterializedSizes ==
    (qit.live /\ ~nlist.null /\ err = "none" /\ driver = "none") =>
        /\ nlist.num_query_points = Len(qpoints)
        /\ nlist.num_points = Len(m_ref_points)
        /\ \A b \in 1..getNumBonds(nlist) :
              /\ nlist.neighbors[b][1] < nlist.num_query_points
              /\ nlist.neighbors[b][2] < nlist.num_points
        /\ validate(nlist, Len(m_ref_points), Len(qpoints)) = "none"

\* What a caller can observe of the list b is what it can observe of a.
SameList(a, b) ==
    /\ b.neighbors = a.neighbors
    /\ b.distances = a.distances
    /\ b.weights = a.weights
    /\ b.num_points = a.num_points
    /\ b.num_query_points = a.num_query_points
    /\ b.counts = a.counts
    /\ b.segments = a.segments

\* C33: a copy made by the copy constructor or by copy(other) has the
\* source's bonds, distances, weights, sizes, counts and segments, validate
\* with the source's sizes does not throw on it, and the source is as it was.
C33_CopyEqualsSource ==
    [][(nlcopy.null /\ ~nlcopy'.null) =>
          /\ SameList(nlist, nlcopy')
          /\ validate(nlcopy', nlist.num_points, nlist.num_query_points) = "none"
          /\ nlist' = nlist]_vars

====
